---- MODULE Spec2Model ----
(***************************************************************************)
(* The dashboard engine of awair-tui (ui.go, with main.go, api.go,         *)
(* config.go): the device registry, the Bubbletea reducer Update with its  *)
(* prompt sub-state-machine, and the runtime that runs the commands Update *)
(* returns (fetches, the tick timer, one-shot discovery) and feeds their   *)
(* results back, one message at a time.                                    *)
(***************************************************************************)
EXTENDS Integers, Sequences, FiniteSets, TLC

VARIABLES
  devices,      \* model.devices: IP -> Device (a partial map)
  deviceOrder,  \* model.deviceOrder
  config,       \* model.config.Devices: IP -> friendly name, "" when absent
  logs,         \* model.logs
  width,        \* model.width
  height,       \* model.height
  showPrompt,   \* model.showPrompt
  promptStep,   \* model.promptStep: "", "ip" or "name"
  promptInput,  \* model.promptInput's value, a sequence of typed pieces
  pendingIP,    \* model.pendingIP
  noDiscovery,  \* model.noDiscovery
  pollInterval, \* model.pollInterval, in milliseconds
  fahrenheit,   \* model.fahrenheit
  discoveryCtx, \* the context of main's discovery loop, cancelled through
                \* model.discoveryCtx: "nil", "live" or "cancelled"
  msg,          \* the message a caller last passed to Update directly
  held,         \* the model value such a caller keeps to call Update with
                \* again, and what its first call returned
  grid,         \* what View last laid out as the device grid
  cell,         \* what View last rendered as the box of one device
  disc,         \* the goroutines and channels of one StartDiscovery call
  cmds,         \* the command batch the last Update call returned
  polls,        \* FetchAirData calls in flight, per IP, in issue order
  cfgFetches,   \* FetchDeviceConfig calls in flight, per IP
  ticks,        \* tick timers pending
  scans,        \* one-shot discoverCmd passes in flight
  quit,         \* tea.Quit has been run
  now,          \* the reading of time.Now()
  upserted,     \* history: the IPs passed to addDevice, in first-call order
  advertised    \* history: the IPs of the discovery entries Update has seen

modelVars == <<devices, deviceOrder, config, logs, width, height,
               showPrompt, promptStep, promptInput, pendingIP, noDiscovery,
               pollInterval, fahrenheit, discoveryCtx>>
runtimeVars == <<polls, cfgFetches, ticks, scans, quit>>
historyVars == <<upserted, advertised>>
vars == <<modelVars, msg, held, grid, cell, disc, cmds, runtimeVars, now, historyVars>>

----------------------------------------------------------------------------
(* Bounds of the model. *)

\* Devices, terminal columns and terminal lines View is given to lay out.
MaxDevices == 8
MaxWidth == 12
MaxHeight == 14
\* The widest cell View is given to fill.
MaxCellWidth == 40

\* Fetches (of readings, of configs) and discovery passes the runtime
\* tracks per device at once; one started beyond that is taken not to
\* complete within the run.
MaxInFlight == 2
\* Log entries a run may come to hold (the program's own cap is LogCap).
MaxLog == 3
\* Largest clock reading.
MaxTime == 2
\* Pieces of text other than spaces one prompt field may come to hold.
MaxInput == 1
\* Spaces it may come to hold besides.
MaxPad == 1
\* Log entries of a calm run, and the requests of a kind it has open.
MaxNotes == 2
MaxBusy == 1
MaxKnown == 1
\* Query rounds of one StartDiscovery call, and the entries mdns.Query
\* reports in a round.
MaxRounds == 2
MaxEntries == 2

\* The shortest log of a run that starts with a long log.
LogFloor == 98

\* addLog keeps at most this many entries.
LogCap == 100
\* renderLogPanel shows at most this many.
LogLines == 4

IPs == {"10.0.0.1", "10.0.0.2"}
\* Friendly names a user types or the config file holds.
FriendlyNames == {"kitchen"}
\* The instance name a device advertises over mDNS.
MdnsName(ip) == "AWAIR-ELEM-" \o ip
\* The device_uuid a device reports, or "" when it reports none.
DeviceUUIDs(ip) == {"", "awair-element_" \o ip}
Readings == {"r1", "r2"}
FetchErrors == {"timeout"}
Nil == "nil"
ZeroTime == 0

\* The positional arguments of the command line.
SeedLists == {<<>>, <<"10.0.0.1">>, <<"10.0.0.1", "10.0.0.2">>,
              <<"10.0.0.1", "10.0.0.1">>}
\* What ~/.awair-tui.json may hold at start.
InitConfigs == {[ip \in IPs |-> IF ip = "10.0.0.1" THEN n ELSE ""] :
                  n \in {""} \cup FriendlyNames \cup {"10.0.0.1"}}
\* Terminal sizes a WindowSizeMsg may carry.
Sizes == {<<80, 24>>, <<120, 40>>}
\* The pieces of text a key message may insert.
Pieces == {" ", "not-an-ip"} \cup IPs \cup FriendlyNames
\* The default of the --interval flag, and values it may be given.
DefaultInterval == 10
Intervals == {0 - 1, 0, 1, DefaultInterval}
\* time.Second, with the millisecond as the unit of durations.
Second == 1000
\* What a discovery pass may report.
Found == {[Name |-> MdnsName(ip), IP |-> ip] : ip \in IPs}
Batches == {<<>>} \cup {<<d>> : d \in Found}
             \cup {<<d, e>> : d \in Found, e \in Found}

NilConfig == [nil |-> TRUE, DeviceUUID |-> ""]
DeviceConfigs(ip) == {[nil |-> FALSE, DeviceUUID |-> u] : u \in DeviceUUIDs(ip)}

----------------------------------------------------------------------------
(* The registry and the log: addLog, addDevice, orderedDevices.  They act  *)
(* on the record of the fields they touch.                                 *)

Registry == [devices |-> devices, deviceOrder |-> deviceOrder,
             config |-> config, logs |-> logs]

Known(r, ip) == ip \in DOMAIN r.devices

\* addLog without the eviction.
addLogUnbounded(r, t, text) ==
  [r EXCEPT !.logs = Append(r.logs, [Time |-> t, Message |-> text])]

addLog(r, t, text) ==
  LET l == Append(r.logs, [Time |-> t, Message |-> text])
  IN  [r EXCEPT !.logs = IF Len(l) > LogCap THEN Tail(l) ELSE l]

\* addDevice appending to deviceOrder on every call, known device or not.
addDeviceReappend(r, ip, name) ==
  LET configName == r.config[ip]
  IN  IF Known(r, ip)
      THEN [r EXCEPT !.deviceOrder = Append(r.deviceOrder, ip)]
      ELSE LET displayName == IF configName # "" THEN configName
                              ELSE IF name # "" THEN name ELSE ip
               dev == [IP |-> ip, Name |-> displayName, Data |-> Nil,
                       Config |-> NilConfig, LastError |-> Nil,
                       LastUpdate |-> ZeroTime]
           IN  [r EXCEPT !.devices = (ip :> dev) @@ r.devices,
                         !.deviceOrder = Append(r.deviceOrder, ip)]

\* addDevice putting a new device at the front of deviceOrder.
addDeviceInFront(r, ip, name) ==
  LET configName == r.config[ip]
  IN  IF Known(r, ip)
      THEN r
      ELSE LET displayName == IF configName # "" THEN configName
                              ELSE IF name # "" THEN name ELSE ip
               dev == [IP |-> ip, Name |-> displayName, Data |-> Nil,
                       Config |-> NilConfig, LastError |-> Nil,
                       LastUpdate |-> ZeroTime]
           IN  [r EXCEPT !.devices = (ip :> dev) @@ r.devices,
                         !.deviceOrder = <<ip>> \o r.deviceOrder]

\* addDevice giving a known device without a config name the proposed name,
\* or its IP when none is proposed.
addDeviceReverting(r, ip, name) ==
  LET configName == r.config[ip]
  IN  IF Known(r, ip)
      THEN IF configName # ""
           THEN [r EXCEPT !.devices[ip].Name = configName]
           ELSE [r EXCEPT !.devices[ip].Name = IF name # "" THEN name ELSE ip]
      ELSE LET displayName == IF configName # "" THEN configName
                              ELSE IF name # "" THEN name ELSE ip
               dev == [IP |-> ip, Name |-> displayName, Data |-> Nil,
                       Config |-> NilConfig, LastError |-> Nil,
                       LastUpdate |-> ZeroTime]
           IN  [r EXCEPT !.devices = (ip :> dev) @@ r.devices,
                         !.deviceOrder = Append(r.deviceOrder, ip)]

addDevice(r, ip, name) ==
  LET configName == r.config[ip]
  IN  IF Known(r, ip)
      THEN IF configName # ""
           THEN [r EXCEPT !.devices[ip].Name = configName]
           ELSE IF name # "" /\ r.devices[ip].Name = ip
                THEN [r EXCEPT !.devices[ip].Name = name]
                ELSE r
      ELSE LET displayName == IF configName # "" THEN configName
                              ELSE IF name # "" THEN name ELSE ip
               dev == [IP |-> ip, Name |-> displayName, Data |-> Nil,
                       Config |-> NilConfig, LastError |-> Nil,
                       LastUpdate |-> ZeroTime]
           IN  [r EXCEPT !.devices = (ip :> dev) @@ r.devices,
                         !.deviceOrder = Append(r.deviceOrder, ip)]

RECURSIVE orderedFrom(_, _)
orderedFrom(r, order) ==
  IF order = <<>> THEN <<>>
  ELSE IF Known(r, Head(order))
       THEN <<r.devices[Head(order)]>> \o orderedFrom(r, Tail(order))
       ELSE orderedFrom(r, Tail(order))

orderedDevices == orderedFrom(Registry, deviceOrder)

\* The entries renderLogPanel renders: m.logs[start:].
visibleLogs(l) ==
  LET start == IF Len(l) - LogLines < 0 THEN 0 ELSE Len(l) - LogLines
  IN  SubSeq(l, start + 1, Len(l))

\* The history of addDevice calls: ip joins at its first call.
Noted(h, ip) == IF \E i \in 1..Len(h) : h[i] = ip THEN h ELSE Append(h, ip)

----------------------------------------------------------------------------
(* Commands. *)

\* tickCmd(m.pollInterval)
tickCmd == [cmd |-> "tick", d |-> pollInterval]
pollCmd(ip) == [cmd |-> "poll", IP |-> ip]
configCmd(ip) == [cmd |-> "config", IP |-> ip]
discoverCmd == [cmd |-> "discover"]
blinkCmd == [cmd |-> "blink"]
quitCmd == [cmd |-> "quit"]

RECURSIVE pollAll(_)
pollAll(order) ==
  IF order = <<>> THEN <<>> ELSE <<pollCmd(Head(order))>> \o pollAll(Tail(order))

RECURSIVE initCmdsFor(_)
initCmdsFor(order) ==
  IF order = <<>> THEN <<>>
  ELSE <<pollCmd(Head(order)), configCmd(Head(order))>> \o initCmdsFor(Tail(order))

\* model.Init
InitCmds(order) == <<tickCmd>> \o initCmdsFor(order)

\* The runtime starts one goroutine (or timer) per command of a batch.
Runtime == [polls |-> polls, cfgFetches |-> cfgFetches, ticks |-> ticks,
            scans |-> scans, quit |-> quit]

Start(rt, c) ==
  CASE c.cmd = "poll" ->
         IF Len(rt.polls[c.IP]) < MaxInFlight
         THEN [rt EXCEPT !.polls[c.IP] = Append(@, FALSE)] ELSE rt
    [] c.cmd = "config" ->
         IF rt.cfgFetches[c.IP] < MaxInFlight
         THEN [rt EXCEPT !.cfgFetches[c.IP] = @ + 1] ELSE rt
    [] c.cmd = "tick" -> [rt EXCEPT !.ticks = @ + 1]
    [] c.cmd = "discover" ->
         IF rt.scans < MaxInFlight THEN [rt EXCEPT !.scans = @ + 1] ELSE rt
    [] c.cmd = "quit" -> [rt EXCEPT !.quit = TRUE]
    [] OTHER -> rt

RECURSIVE Launch(_, _)
Launch(rt, cs) ==
  IF cs = <<>> THEN rt ELSE Launch(Start(rt, Head(cs)), Tail(cs))

SetRuntime(rt) ==
  /\ polls' = rt.polls
  /\ cfgFetches' = rt.cfgFetches
  /\ ticks' = rt.ticks
  /\ scans' = rt.scans
  /\ quit' = rt.quit

SetRegistry(r) ==
  /\ devices' = r.devices
  /\ deviceOrder' = r.deviceOrder
  /\ config' = r.config
  /\ logs' = r.logs

promptVars == <<showPrompt, promptStep, promptInput, pendingIP>>
sizeVars == <<width, height>>

----------------------------------------------------------------------------
(* Messages. *)

tickMsg == [type |-> "tick"]
pollResultMsg(ip, data, err) == [type |-> "pollResult", IP |-> ip, Data |-> data, Err |-> err]
configResultMsg(ip, cfg) == [type |-> "configResult", IP |-> ip, Config |-> cfg]
discoveredMsg(d) == [type |-> "discovered", Name |-> d.Name, IP |-> d.IP]
discoveryBatchMsg(list) == [type |-> "discoveryBatch", Batch |-> list]
KeyMsg(s) == [type |-> "key", String |-> s]
WindowSizeMsg(w, h) == [type |-> "windowSize", Width |-> w, Height |-> h]

\* The keys handleKey and handlePromptKey name, a key the text input binds
\* (ctrl+u, delete to the start of the line), and text.
Shortcuts == {"q", "esc", "ctrl+c", "r", "a", "d"}
TextKeys == Pieces \cup {"q", "r", "a", "d"}
Keys == Shortcuts \cup {"enter", "ctrl+u"} \cup TextKeys

----------------------------------------------------------------------------
(* The text input (bubbles/textinput), as far as the reducer uses it: its  *)
(* value, SetValue, and Update on a forwarded key with the cursor at the   *)
(* end of the line.                                                        *)

textinputUpdate(value, key) ==
  IF key \in TextKeys
  THEN Append(value, key)
  ELSE IF key = "ctrl+u" THEN <<>> ELSE value

RECURSIVE Join(_)
Join(value) == IF value = <<>> THEN "" ELSE Head(value) \o Join(Tail(value))

RECURSIVE TrimLeft(_)
TrimLeft(value) ==
  IF value # <<>> /\ Head(value) = " " THEN TrimLeft(Tail(value)) ELSE value

RECURSIVE TrimRight(_)
TrimRight(value) ==
  IF value # <<>> /\ value[Len(value)] = " "
  THEN TrimRight(SubSeq(value, 1, Len(value) - 1)) ELSE value

\* strings.TrimSpace(m.promptInput.Value())
TrimSpace(value) == Join(TrimRight(TrimLeft(value)))

\* net.ParseIP(s) != nil
isValidIP(s) == s \in IPs

----------------------------------------------------------------------------
(* Update, one handler per message type. *)

\* The WindowSizeMsg case closing the prompt as well.
UpdateWindowSizeClosing(m) ==
  /\ width' = m.Width
  /\ height' = m.Height
  /\ cmds' = <<>>
  /\ showPrompt' = FALSE
  /\ UNCHANGED <<devices, deviceOrder, config, logs, promptStep, promptInput,
                 pendingIP, noDiscovery, pollInterval, fahrenheit, discoveryCtx, historyVars>>

UpdateWindowSize(m) ==
  /\ width' = m.Width
  /\ height' = m.Height
  /\ cmds' = <<>>
  /\ UNCHANGED <<devices, deviceOrder, config, logs, promptVars, noDiscovery, pollInterval, fahrenheit, discoveryCtx, historyVars>>

\* The tickMsg case fetching the configs as well.
UpdateTickWithConfig ==
  /\ cmds' = initCmdsFor(deviceOrder) \o <<tickCmd>>
  /\ UNCHANGED <<modelVars, historyVars>>

\* The tickMsg case fetching nothing while the prompt is open.
UpdateTickPaused ==
  /\ cmds' = IF showPrompt THEN <<tickCmd>> ELSE pollAll(deviceOrder) \o <<tickCmd>>
  /\ UNCHANGED <<modelVars, historyVars>>

UpdateTick ==
  /\ cmds' = pollAll(deviceOrder) \o <<tickCmd>>
  /\ UNCHANGED <<modelVars, historyVars>>

\* recordReading dropping the reading when a fetch fails.
recordReadingDropping(dev, m, t) ==
  IF m.Err # Nil
  THEN [dev EXCEPT !.Data = Nil, !.LastError = m.Err]
  ELSE [dev EXCEPT !.Data = m.Data, !.LastError = Nil, !.LastUpdate = t]

\* recordReading keeping the last error when a reading arrives.
recordReadingKeepingError(dev, m, t) ==
  IF m.Err # Nil
  THEN [dev EXCEPT !.LastError = m.Err]
  ELSE [dev EXCEPT !.Data = m.Data, !.LastUpdate = t]

\* The body of the pollResultMsg case for a device that is known.
recordReading(dev, m, t) ==
  IF m.Err # Nil
  THEN [dev EXCEPT !.LastError = m.Err]
  ELSE [dev EXCEPT !.Data = m.Data, !.LastError = Nil, !.LastUpdate = t]

\* pollResultUpdate registering the IP of a result it does not know.
pollResultUpdateCreating(ds, m, t) ==
  IF m.IP \in DOMAIN ds
  THEN [ds EXCEPT ![m.IP] = recordReading(@, m, t)]
  ELSE (m.IP :> [IP |-> m.IP, Name |-> m.IP, Data |-> m.Data,
                 Config |-> NilConfig, LastError |-> m.Err,
                 LastUpdate |-> t]) @@ ds

\* pollResultUpdate recording a result in every device.
pollResultUpdateAll(ds, m, t) ==
  IF m.IP \in DOMAIN ds
  THEN [ip \in DOMAIN ds |-> recordReading(ds[ip], m, t)]
  ELSE ds

pollResultUpdate(ds, m, t) ==
  IF m.IP \in DOMAIN ds
  THEN [ds EXCEPT ![m.IP] = recordReading(@, m, t)]
  ELSE ds

UpdatePollResult(m) ==
  /\ devices' = pollResultUpdate(devices, m, now)
  /\ cmds' = <<>>
  /\ UNCHANGED <<deviceOrder, config, logs, sizeVars, promptVars, noDiscovery, pollInterval, fahrenheit, discoveryCtx, historyVars>>

\* attachConfig naming the device by every device_uuid it is given.
attachConfigRenaming(dev, cfg) ==
  IF cfg.DeviceUUID # ""
  THEN [dev EXCEPT !.Config = cfg, !.Name = cfg.DeviceUUID]
  ELSE [dev EXCEPT !.Config = cfg]

\* The body of the configResultMsg case for a device that is known.
attachConfig(dev, cfg) ==
  IF cfg.DeviceUUID # "" /\ dev.Name = dev.IP
  THEN [dev EXCEPT !.Config = cfg, !.Name = cfg.DeviceUUID]
  ELSE [dev EXCEPT !.Config = cfg]

configResultUpdate(ds, m) ==
  IF m.Config.nil THEN ds
  ELSE IF m.IP \in DOMAIN ds
       THEN [ds EXCEPT ![m.IP] = attachConfig(@, m.Config)]
       ELSE ds

UpdateConfigResult(m) ==
  /\ devices' = configResultUpdate(devices, m)
  /\ cmds' = <<>>
  /\ UNCHANGED <<deviceOrder, config, logs, sizeVars, promptVars, noDiscovery, pollInterval, fahrenheit, discoveryCtx, historyVars>>

\* discoverOne fetching again from a device it already knows.
discoverOneRefetching(acc, d, t) ==
  IF ~Known(acc.r, d.IP)
  THEN LET r1 == addDevice(acc.r, d.IP, d.Name)
       IN  [r |-> addLog(r1, t, "Discovered: " \o r1.devices[d.IP].Name \o " at " \o d.IP),
            cmds |-> acc.cmds \o <<pollCmd(d.IP), configCmd(d.IP)>>,
            h |-> Noted(acc.h, d.IP)]
  ELSE [acc EXCEPT !.cmds = @ \o <<pollCmd(d.IP), configCmd(d.IP)>>]

\* What the discoveredMsg case and one round of the discoveryBatchMsg loop do
\* with entry d: acc carries the registry, the commands and the history.
discoverOne(acc, d, t) ==
  IF ~Known(acc.r, d.IP)
  THEN LET r1 == addDevice(acc.r, d.IP, d.Name)
       IN  [r |-> addLog(r1, t, "Discovered: " \o r1.devices[d.IP].Name \o " at " \o d.IP),
            cmds |-> acc.cmds \o <<pollCmd(d.IP), configCmd(d.IP)>>,
            h |-> Noted(acc.h, d.IP)]
  ELSE acc

UpdateDiscovered(m) ==
  LET res == discoverOne([r |-> Registry, cmds |-> <<>>, h |-> upserted], m, now)
  IN  /\ SetRegistry(res.r)
      /\ cmds' = res.cmds
      /\ upserted' = res.h
      /\ advertised' = advertised \cup {m.IP}
      /\ UNCHANGED <<sizeVars, promptVars, noDiscovery, pollInterval, fahrenheit, discoveryCtx>>

RECURSIVE discoverEach(_, _, _)
discoverEach(acc, list, t) ==
  IF list = <<>> THEN acc
  ELSE discoverEach(discoverOne(acc, Head(list), t), Tail(list), t)

\* The discoveryBatchMsg case noting "No new devices found" after every pass.
UpdateDiscoveryBatchNoting(m) ==
  LET res == discoverEach([r |-> Registry, cmds |-> <<>>, h |-> upserted], m.Batch, now)
      r2 == addLog(res.r, now, "No new devices found")
  IN  /\ SetRegistry(r2)
      /\ cmds' = res.cmds
      /\ upserted' = res.h
      /\ advertised' = advertised \cup {m.Batch[i].IP : i \in 1..Len(m.Batch)}
      /\ UNCHANGED <<sizeVars, promptVars, noDiscovery, pollInterval, fahrenheit, discoveryCtx>>

UpdateDiscoveryBatch(m) ==
  LET res == discoverEach([r |-> Registry, cmds |-> <<>>, h |-> upserted], m.Batch, now)
      r2 == IF res.cmds = <<>> THEN addLog(res.r, now, "No new devices found") ELSE res.r
  IN  /\ SetRegistry(r2)
      /\ cmds' = res.cmds
      /\ upserted' = res.h
      /\ advertised' = advertised \cup {m.Batch[i].IP : i \in 1..Len(m.Batch)}
      /\ UNCHANGED <<sizeVars, promptVars, noDiscovery, pollInterval, fahrenheit, discoveryCtx>>

----------------------------------------------------------------------------
(* Key presses: handleKey and handlePromptKey. *)

\* Closing the prompt with the pending IP kept.
ClosePromptKeepingIP ==
  /\ showPrompt' = FALSE
  /\ promptStep' = ""
  /\ UNCHANGED <<promptInput, pendingIP>>

ClosePrompt ==
  /\ showPrompt' = FALSE
  /\ promptStep' = ""
  /\ pendingIP' = ""
  /\ UNCHANGED promptInput

\* The "enter" case at the "ip" step without the isValidIP check.
promptEnterIPUnchecked ==
  LET value == TrimSpace(promptInput)
  IN  IF value = ""
      THEN /\ showPrompt' = FALSE
           /\ cmds' = <<>>
           /\ UNCHANGED <<devices, deviceOrder, config, logs, promptStep,
                          promptInput, pendingIP, historyVars>>
      ELSE /\ pendingIP' = value
           /\ promptStep' = "name"
           /\ promptInput' = <<>>
           /\ cmds' = <<>>
           /\ UNCHANGED <<devices, deviceOrder, config, logs, showPrompt, historyVars>>

\* The "enter" case of handlePromptKey at the "ip" step.
promptEnterIP ==
  LET value == TrimSpace(promptInput)
  IN  IF value = ""
      THEN /\ showPrompt' = FALSE
           /\ cmds' = <<>>
           /\ UNCHANGED <<devices, deviceOrder, config, logs, promptStep,
                          promptInput, pendingIP, historyVars>>
      ELSE IF ~isValidIP(value)
      THEN /\ SetRegistry(addLog(Registry, now, "Invalid IP: " \o value))
           /\ showPrompt' = FALSE
           /\ cmds' = <<>>
           /\ UNCHANGED <<promptStep, promptInput, pendingIP, historyVars>>
      ELSE /\ pendingIP' = value
           /\ promptStep' = "name"
           /\ promptInput' = <<>>
           /\ cmds' = <<>>
           /\ UNCHANGED <<devices, deviceOrder, config, logs, showPrompt, historyVars>>

\* The registry after the "enter" case at the "name" step: the name map is
\* written when a name was typed, then the device is upserted and logged.
\* addFromPrompt without the write to the name map.
addFromPromptNotSaving(r, ip, name, t) ==
  LET r2 == addDevice(r, ip, name)
  IN  addLog(r2, t, "Added device: " \o r2.devices[ip].Name \o " (" \o ip \o ")")

addFromPrompt(r, ip, name, t) ==
  LET r1 == IF name # "" THEN [r EXCEPT !.config[ip] = name] ELSE r
      r2 == addDevice(r1, ip, name)
  IN  addLog(r2, t, "Added device: " \o r2.devices[ip].Name \o " (" \o ip \o ")")

promptEnterName ==
  LET ip == pendingIP
      name == TrimSpace(promptInput)
  IN  /\ SetRegistry(addFromPrompt(Registry, ip, name, now))
      /\ upserted' = Noted(upserted, ip)
      /\ ClosePrompt
      /\ cmds' = <<pollCmd(ip), configCmd(ip)>>
      /\ UNCHANGED advertised

handlePromptKey(m) ==
  /\ UNCHANGED <<sizeVars, noDiscovery, pollInterval, fahrenheit, discoveryCtx>>
  /\ CASE m.String = "esc" ->
            /\ ClosePrompt
            /\ cmds' = <<>>
            /\ UNCHANGED <<devices, deviceOrder, config, logs, historyVars>>
       [] m.String = "enter" ->
            IF promptStep = "ip" THEN promptEnterIP
            ELSE IF promptStep = "name" THEN promptEnterName
            ELSE cmds' = <<>> /\ UNCHANGED <<devices, deviceOrder, config, logs,
                                            promptVars, historyVars>>
       [] OTHER ->
            /\ promptInput' = textinputUpdate(promptInput, m.String)
            /\ cmds' = <<>>
            /\ UNCHANGED <<devices, deviceOrder, config, logs, showPrompt,
                           promptStep, pendingIP, historyVars>>

\* handleShortcut with a refresh that arms a tick of its own.
handleShortcutRearming(m) ==
  /\ UNCHANGED <<sizeVars, noDiscovery, pollInterval, fahrenheit, historyVars>>
  /\ CASE m.String \in {"q", "esc", "ctrl+c"} ->
            /\ discoveryCtx' = IF discoveryCtx # "nil" THEN "cancelled" ELSE "nil"
            /\ cmds' = <<quitCmd>>
            /\ UNCHANGED <<devices, deviceOrder, config, logs, promptVars>>
       [] m.String = "r" ->
            /\ SetRegistry(addLog(Registry, now, "Refreshing..."))
            /\ cmds' = pollAll(deviceOrder) \o <<tickCmd>>
            /\ UNCHANGED <<promptVars, discoveryCtx>>
       [] m.String = "a" ->
            /\ showPrompt' = TRUE
            /\ promptStep' = "ip"
            /\ promptInput' = <<>>
            /\ cmds' = <<blinkCmd>>
            /\ UNCHANGED <<devices, deviceOrder, config, logs, pendingIP, discoveryCtx>>
       [] m.String = "d" ->
            IF noDiscovery
            THEN /\ SetRegistry(addLog(Registry, now, "Discovery disabled (--no-discovery)"))
                 /\ cmds' = <<>>
                 /\ UNCHANGED <<promptVars, discoveryCtx>>
            ELSE /\ SetRegistry(addLog(Registry, now, "Restarting mDNS discovery..."))
                 /\ cmds' = <<discoverCmd>>
                 /\ UNCHANGED <<promptVars, discoveryCtx>>
       [] OTHER ->
            /\ cmds' = <<>>
            /\ UNCHANGED <<devices, deviceOrder, config, logs, promptVars, discoveryCtx>>

\* handleShortcut restarting discovery whatever --no-discovery says.
handleShortcutDiscovering(m) ==
  /\ UNCHANGED <<sizeVars, noDiscovery, pollInterval, fahrenheit, historyVars>>
  /\ CASE m.String \in {"q", "esc", "ctrl+c"} ->
            /\ discoveryCtx' = IF discoveryCtx # "nil" THEN "cancelled" ELSE "nil"
            /\ cmds' = <<quitCmd>>
            /\ UNCHANGED <<devices, deviceOrder, config, logs, promptVars>>
       [] m.String = "r" ->
            /\ SetRegistry(addLog(Registry, now, "Refreshing..."))
            /\ cmds' = pollAll(deviceOrder)
            /\ UNCHANGED <<promptVars, discoveryCtx>>
       [] m.String = "a" ->
            /\ showPrompt' = TRUE
            /\ promptStep' = "ip"
            /\ promptInput' = <<>>
            /\ cmds' = <<blinkCmd>>
            /\ UNCHANGED <<devices, deviceOrder, config, logs, pendingIP, discoveryCtx>>
       [] m.String = "d" ->
            /\ SetRegistry(addLog(Registry, now, "Restarting mDNS discovery..."))
            /\ cmds' = <<discoverCmd>>
            /\ UNCHANGED <<promptVars, discoveryCtx>>
       [] OTHER ->
            /\ cmds' = <<>>
            /\ UNCHANGED <<devices, deviceOrder, config, logs, promptVars, discoveryCtx>>

handleShortcut(m) ==
  /\ UNCHANGED <<sizeVars, noDiscovery, pollInterval, fahrenheit, historyVars>>
  /\ CASE m.String \in {"q", "esc", "ctrl+c"} ->
            /\ discoveryCtx' = IF discoveryCtx # "nil" THEN "cancelled" ELSE "nil"
            /\ cmds' = <<quitCmd>>
            /\ UNCHANGED <<devices, deviceOrder, config, logs, promptVars>>
       [] m.String = "r" ->
            /\ SetRegistry(addLog(Registry, now, "Refreshing..."))
            /\ cmds' = pollAll(deviceOrder)
            /\ UNCHANGED <<promptVars, discoveryCtx>>
       [] m.String = "a" ->
            /\ showPrompt' = TRUE
            /\ promptStep' = "ip"
            /\ promptInput' = <<>>
            /\ cmds' = <<blinkCmd>>
            /\ UNCHANGED <<devices, deviceOrder, config, logs, pendingIP, discoveryCtx>>
       [] m.String = "d" ->
            IF noDiscovery
            THEN /\ SetRegistry(addLog(Registry, now, "Discovery disabled (--no-discovery)"))
                 /\ cmds' = <<>>
                 /\ UNCHANGED <<promptVars, discoveryCtx>>
            ELSE /\ SetRegistry(addLog(Registry, now, "Restarting mDNS discovery..."))
                 /\ cmds' = <<discoverCmd>>
                 /\ UNCHANGED <<promptVars, discoveryCtx>>
       [] OTHER ->
            /\ cmds' = <<>>
            /\ UNCHANGED <<devices, deviceOrder, config, logs, promptVars, discoveryCtx>>

\* handleKey looking for a shortcut before it looks at the prompt.
handleKeyShortcutFirst(m) ==
  IF showPrompt /\ m.String \notin Shortcuts
  THEN handlePromptKey(m) ELSE handleShortcut(m)

handleKey(m) == IF showPrompt THEN handlePromptKey(m) ELSE handleShortcut(m)

\* model.Update
Update(m) ==
  CASE m.type = "windowSize" -> UpdateWindowSize(m)
    [] m.type = "key" -> handleKey(m)
    [] m.type = "tick" -> UpdateTick
    [] m.type = "pollResult" -> UpdatePollResult(m)
    [] m.type = "configResult" -> UpdateConfigResult(m)
    [] m.type = "discovered" -> UpdateDiscovered(m)
    [] m.type = "discoveryBatch" -> UpdateDiscoveryBatch(m)
    [] OTHER -> cmds' = <<>> /\ UNCHANGED <<modelVars, historyVars>>

----------------------------------------------------------------------------
(* Construction: initialModel, then model.Init run by the runtime. *)

RECURSIVE seed(_, _, _)
seed(r, ips, t) ==
  IF ips = <<>> THEN r
  ELSE LET r1 == addDevice(r, Head(ips), "")
       IN  seed(addLog(r1, t, "Added device: " \o r1.devices[Head(ips)].Name),
                Tail(ips), t)

RECURSIVE noteAll(_, _)
noteAll(h, ips) == IF ips = <<>> THEN h ELSE noteAll(Noted(h, Head(ips)), Tail(ips))

initialModel(cfg, ips, t) ==
  LET n == Cardinality({ip \in IPs : cfg[ip] # ""})
      r0 == [devices |-> <<>>, deviceOrder |-> <<>>, config |-> cfg, logs |-> <<>>]
      r1 == IF n > 0
            THEN addLog(r0, t, "Loaded " \o ToString(n) \o " device name(s) from config")
            ELSE r0
  IN  seed(r1, ips, t)

\* View has rendered no device box.
NoCell == [w |-> 0]

\* No StartDiscovery call is followed: no context, no goroutine, no channel.
NoPass ==
  [mode |-> "none", ctx |-> "live", outer |-> "idle", round |-> 0,
   entries |-> [k \in 1..MaxRounds |-> <<>>],
   queried |-> [k \in 1..MaxRounds |-> 0],
   closed |-> [k \in 1..MaxRounds |-> FALSE],
   fwd |-> [k \in 1..MaxRounds |-> "none"],
   entry |-> [k \in 1..MaxRounds |-> <<>>],
   found |-> <<>>]

\* View has laid out no device grid.
NoGrid == [n |-> 0]

\* No caller holds a model value.
NotHeld == [phase |-> "none", start |-> <<>>, first |-> <<>>]

Idle == [polls |-> [ip \in IPs |-> <<>>], cfgFetches |-> [ip \in IPs |-> 0],
         ticks |-> 0, scans |-> 0, quit |-> FALSE]

\* The state after construction, for a config file among cfgs, arguments
\* among seeds, the --no-discovery flag among flags and the --interval flag
\* among intervals and the --fahrenheit flag among units.
InitAll(cfgs, seeds, flags, intervals, units) ==
  /\ now = 1
  /\ \E cfg \in cfgs, ips \in seeds :
       /\ LET r == initialModel(cfg, ips, 1)
          IN  /\ devices = r.devices
              /\ deviceOrder = r.deviceOrder
              /\ config = r.config
              /\ logs = r.logs
       /\ upserted = noteAll(<<>>, ips)
  /\ width = 0
  /\ height = 0
  /\ showPrompt = FALSE
  /\ promptStep = ""
  /\ promptInput = <<>>
  /\ pendingIP = ""
  /\ noDiscovery \in flags
  /\ \E interval \in intervals : pollInterval = interval * Second
  /\ fahrenheit \in units
  /\ discoveryCtx = IF noDiscovery THEN "nil" ELSE "live"
  /\ msg = [type |-> "none"]
  /\ held = NotHeld
  /\ grid = NoGrid
  /\ cell = NoCell
  /\ disc = NoPass
  /\ cmds = InitCmds(deviceOrder)
  /\ LET rt == Launch(Idle, cmds)
     IN  /\ polls = rt.polls
         /\ cfgFetches = rt.cfgFetches
         /\ ticks = rt.ticks
         /\ scans = rt.scans
         /\ quit = rt.quit
  /\ advertised = {}

\* The same with Celsius as the unit.
InitFrom(cfgs, seeds, flags, intervals) == InitAll(cfgs, seeds, flags, intervals, {FALSE})

\* The same with the default --interval.
InitWith(cfgs, seeds, flags) == InitFrom(cfgs, seeds, flags, {DefaultInterval})

Init == InitWith(InitConfigs, SeedLists, BOOLEAN)

----------------------------------------------------------------------------
(* The runtime: one message at a time goes through Update, and the batch   *)
(* it returns is started.                                                  *)

Running == ~quit

\* A run's log and a prompt field stay within the bounds; a run that
\* starts with a long log writes at most MaxLog entries.
InBounds ==
  /\ IF Len(logs) >= LogFloor
     THEN Len(SelectSeq(logs', LAMBDA e : e.Time = now)) <= MaxLog
     ELSE Len(logs') <= MaxLog
  /\ Len(SelectSeq(promptInput', LAMBDA k : k # " ")) <= MaxInput
  /\ Len(SelectSeq(promptInput', LAMBDA k : k = " ")) <= MaxPad

Handle(m, rt) ==
  /\ Running
  /\ Update(m)
  /\ InBounds
  /\ SetRuntime(Launch(rt, cmds'))
  /\ UNCHANGED <<now, msg, held, grid, cell>>

Deliver(m, rt) == Handle(m, rt) /\ UNCHANGED disc

\* A timer that fires only once every fetch issued before has returned.
TickWhenIdle ==
  /\ ticks > 0
  /\ \A ip \in IPs : polls[ip] = <<>>
  /\ Deliver(tickMsg, [Runtime EXCEPT !.ticks = @ - 1])

\* The timer of tickCmd fires.
Tick ==
  /\ ticks > 0
  /\ Deliver(tickMsg, [Runtime EXCEPT !.ticks = @ - 1])

\* polls[ip] without its i-th fetch; when that fetch brought a reading, the
\* fetches issued before it are marked as overtaken.
Completed(fs, i, ok) ==
  [j \in 1..(Len(fs) - 1) |-> IF j < i THEN (fs[j] \/ ok) ELSE fs[j + 1]]

\* The i-th open FetchAirData of ip returns (pollCmd).
PollResult(ip, i, data, err) ==
  /\ i \in 1..Len(polls[ip])
  /\ Deliver(pollResultMsg(ip, data, err),
             [Runtime EXCEPT !.polls[ip] = Completed(@, i, err = Nil)])

PollSucceeds == \E ip \in IPs, i \in 1..MaxInFlight, data \in Readings :
                  PollResult(ip, i, data, Nil)

PollFails == \E ip \in IPs, i \in 1..MaxInFlight, err \in FetchErrors :
               PollResult(ip, i, Nil, err)

\* An open FetchDeviceConfig of ip returns a config (configCmd).
ConfigResultFor(ip, cfg) ==
  /\ cfgFetches[ip] > 0
  /\ Deliver(configResultMsg(ip, cfg), [Runtime EXCEPT !.cfgFetches[ip] = @ - 1])

ConfigResult == \E ip \in IPs : \E cfg \in DeviceConfigs(ip) : ConfigResultFor(ip, cfg)

\* configCmd reporting a failed FetchDeviceConfig as the device's last error.
ConfigFailsRecording == \E ip \in IPs :
  /\ Running
  /\ cfgFetches[ip] > 0
  /\ cfgFetches' = [cfgFetches EXCEPT ![ip] = @ - 1]
  /\ devices' = IF ip \in DOMAIN devices
                THEN [devices EXCEPT ![ip].LastError = "timeout"]
                ELSE devices
  /\ UNCHANGED <<deviceOrder, config, logs, sizeVars, promptVars, noDiscovery,
                 pollInterval, fahrenheit, discoveryCtx, msg, held, grid, cell, disc, cmds, polls, ticks, scans, quit, now,
                 historyVars>>

\* An open FetchDeviceConfig fails: configCmd returns no message.
ConfigFails == \E ip \in IPs :
  /\ Running
  /\ cfgFetches[ip] > 0
  /\ cfgFetches' = [cfgFetches EXCEPT ![ip] = @ - 1]
  /\ UNCHANGED <<modelVars, msg, held, grid, cell, disc, cmds, polls, ticks, scans, quit, now,
                 historyVars>>

\* The discovery goroutine of main sends an entry: it was started unless
\* --no-discovery was given, and its loop ends when the context is done.
DiscoveredOne(d) ==
  /\ discoveryCtx = "live"
  /\ Deliver(discoveredMsg(d), Runtime)

Discovered == \E d \in Found : DiscoveredOne(d)

\* A one-shot discovery pass ends (discoverCmd).
DiscoveryBatchOf(list) ==
  /\ scans > 0
  /\ Deliver(discoveryBatchMsg(list), [Runtime EXCEPT !.scans = @ - 1])

DiscoveryBatch == \E list \in Batches : DiscoveryBatchOf(list)

Key(k) == Deliver(KeyMsg(k), Runtime)

KeyPressIn(keys) == \E k \in keys : Key(k)

KeyPress == KeyPressIn(Keys)

Resize == \E sz \in Sizes : Deliver(WindowSizeMsg(sz[1], sz[2]), Runtime)

\* Time passes.
ClockAdvance ==
  /\ Running
  /\ now < MaxTime
  /\ now' = now + 1
  /\ UNCHANGED <<modelVars, msg, held, grid, cell, disc, cmds, runtimeVars, historyVars>>

Next ==
  \/ Tick
  \/ PollSucceeds
  \/ PollFails
  \/ ConfigResult
  \/ ConfigFails
  \/ Discovered
  \/ DiscoveryBatch
  \/ KeyPress
  \/ Resize
  \/ ClockAdvance

\* The whole program.
Spec == Init /\ [][Next]_vars

----------------------------------------------------------------------------
(* The program with the user and the network doing only part of what they  *)
(* can do: each specification below runs actions of Spec from its          *)
(* constructions, with fewer kinds of event.                               *)

\* The registry and the prompt: discovery, discovery passes and the
\* add-device prompt.
RegistryKeys == {"a", "d", "enter", "10.0.0.2", "kitchen"}

NextRegistry ==
  \/ Discovered
  \/ DiscoveryBatch
  \/ KeyPressIn(RegistryKeys)

SpecRegistry == Init /\ [][NextRegistry]_vars

\* Naming: discovery, config fetches and the add-device prompt.
NamingKeys == {"a", "enter", "10.0.0.2", "kitchen"}

NextNaming ==
  \/ Discovered
  \/ ConfigResult
  \/ ConfigFails
  \/ KeyPressIn(NamingKeys)

InitNaming == InitWith(InitConfigs, {<<>>, <<"10.0.0.1">>}, {FALSE})

SpecNaming == InitNaming /\ [][NextNaming]_vars

\* Polling: the timer, reading fetches returning, the refresh key, the
\* clock, for two devices given on the command line.
InitPolling == InitWith({[ip \in IPs |-> ""]}, {<<"10.0.0.1", "10.0.0.2">>}, {TRUE})

NextPolling ==
  \/ Tick
  \/ PollSucceeds
  \/ PollFails
  \/ KeyPressIn({"r"})
  \/ ClockAdvance

SpecPolling == InitPolling /\ [][NextPolling]_vars

\* An open FetchAirData of ip returns, with a reading or an error.
PollReturns(ip) ==
  \E i \in 1..MaxInFlight :
    \/ \E data \in Readings : PollResult(ip, i, data, Nil)
    \/ \E err \in FetchErrors : PollResult(ip, i, Nil, err)

\* Polling with a fair timer and a device 10.0.0.2 whose fetches all
\* return (the HTTP client gives up after its timeout), while nothing is
\* assumed of the fetches of 10.0.0.1: they may stay open for ever.
SpecPollingFair ==
  /\ InitPolling
  /\ [][NextPolling]_vars
  /\ WF_vars(Tick)
  /\ WF_vars(PollReturns("10.0.0.2"))

\* Fetching: the timer, and reading fetches and config fetches returning
\* or failing, for one or two devices given on the command line.
InitFetch ==
  InitWith({[ip \in IPs |-> ""]},
           {<<"10.0.0.1">>, <<"10.0.0.1", "10.0.0.2">>}, {TRUE})

NextFetch ==
  \/ Tick
  \/ PollSucceeds
  \/ PollFails
  \/ ConfigResult
  \/ ConfigFails

SpecFetch == InitFetch /\ [][NextFetch]_vars

\* Quitting: discovery, one-shot passes, and the keys that start a pass or
\* quit.
QuitKeys == {"d", "q", "esc", "ctrl+c"}

NextQuit ==
  \/ Discovered
  \/ DiscoveryBatch
  \/ PollSucceeds
  \/ KeyPressIn(QuitKeys)

InitQuit == InitWith({[ip \in IPs |-> ""]}, {<<>>, <<"10.0.0.1">>}, BOOLEAN)

SpecQuit == InitQuit /\ [][NextQuit]_vars

\* The timer under every --interval: ticks and readings arriving, for a
\* program started with no, one or two devices.
InitInterval ==
  InitFrom({[ip \in IPs |-> ""]},
           {<<>>, <<"10.0.0.1">>, <<"10.0.0.1", "10.0.0.2">>}, {TRUE}, Intervals)

NextInterval ==
  \/ Tick
  \/ PollSucceeds

SpecInterval == InitInterval /\ [][NextInterval]_vars

\* The prompt and the shortcuts: every key the handlers name, and text,
\* for a program started without devices.
PromptKeys == {"q", "ctrl+c", "r", "a", "d", "esc", "enter", "ctrl+u",
               " ", "not-an-ip", "10.0.0.2", "kitchen"}

InitPrompt == InitWith({[ip \in IPs |-> ""]}, {<<>>}, {FALSE})

NextPrompt == KeyPressIn(PromptKeys)

SpecPrompt == InitPrompt /\ [][NextPrompt]_vars

\* The screen and the timer: resizes, ticks, the refresh key, the prompt
\* opening and readings arriving, for a program started with no, one or
\* two devices.
ScreenKeys == {"r", "a"}

InitScreen ==
  InitWith({[ip \in IPs |-> ""]},
           {<<>>, <<"10.0.0.1">>, <<"10.0.0.1", "10.0.0.2">>}, {TRUE})

NextScreen ==
  \/ Resize
  \/ Tick
  \/ PollSucceeds
  \/ KeyPressIn(ScreenKeys)

SpecScreen == InitScreen /\ [][NextScreen]_vars

\* The dashboard: every kind of message Update has a case for, with the
\* keys that refresh, start a discovery pass, go through the add-device
\* prompt, for a program started without devices.
DashboardKeys == {"r", "d", "a", "10.0.0.2", "enter", "esc"}

InitDashboard == InitWith({[ip \in IPs |-> ""]}, {<<>>}, {FALSE})

\* A calm run: the log stays short, few devices are known and a device is
\* asked again only once it has answered.
Calm ==
  /\ Len(logs) <= MaxNotes
  /\ Len(deviceOrder) <= MaxKnown
  /\ scans <= MaxBusy
  /\ \A ip \in IPs : Len(polls[ip]) <= MaxBusy /\ cfgFetches[ip] <= MaxBusy

NextDashboard ==
  \/ Tick /\ Calm'
  \/ PollSucceeds /\ Calm'
  \/ ConfigResult /\ Calm'
  \/ Discovered /\ Calm'
  \/ DiscoveryBatch /\ Calm'
  \/ Resize /\ Calm'
  \/ KeyPressIn(DashboardKeys) /\ Calm'

SpecDashboard == InitDashboard /\ [][NextDashboard]_vars

\* A long log: the program was started with --no-discovery and no device,
\* and the keys d and r were pressed LogFloor times or more before the
\* clock moved; then the same two keys.
LongLogs ==
  {[i \in 1..n |-> [Time |-> 1,
                    Message |-> IF i \in marks THEN "Refreshing..."
                                ELSE "Discovery disabled (--no-discovery)"]] :
     n \in LogFloor..LogCap, marks \in SUBSET (1..(MaxLog + 1))}

InitLog ==
  /\ now = 2
  /\ logs \in LongLogs
  /\ devices = <<>>
  /\ deviceOrder = <<>>
  /\ config = [ip \in IPs |-> ""]
  /\ width = 0
  /\ height = 0
  /\ showPrompt = FALSE
  /\ promptStep = ""
  /\ promptInput = <<>>
  /\ pendingIP = ""
  /\ noDiscovery = TRUE
  /\ pollInterval = DefaultInterval * Second
  /\ fahrenheit = FALSE
  /\ discoveryCtx = "nil"
  /\ msg = [type |-> "none"]
  /\ held = NotHeld
  /\ grid = NoGrid
  /\ cell = NoCell
  /\ disc = NoPass
  /\ cmds = <<>>
  /\ polls = Idle.polls
  /\ cfgFetches = Idle.cfgFetches
  /\ ticks = 1
  /\ scans = 0
  /\ quit = FALSE
  /\ upserted = <<>>
  /\ advertised = {}

NextLog == KeyPressIn({"r", "d"})

SpecLog == InitLog /\ [][NextLog]_vars

\* Update called directly, as a test of the reducer or a Program.Send from
\* outside would: fetch results for any IP, known to the registry or not.
\* The commands it returns are not run.
Send(m) ==
  /\ msg' = m
  /\ Update(m)
  /\ InBounds
  /\ UNCHANGED <<runtimeVars, now, held, grid, cell, disc>>

FetchResults ==
  {pollResultMsg(ip, data, Nil) : ip \in IPs, data \in Readings}
    \cup {pollResultMsg(ip, Nil, err) : ip \in IPs, err \in FetchErrors}
    \cup UNION {{configResultMsg(ip, cfg) : cfg \in DeviceConfigs(ip) \cup {NilConfig}} :
                  ip \in IPs}

SendFetchResult == \E m \in FetchResults : Send(m)

\* Keys that open the prompt and type into it.
SendKey == \E k \in {"a", "10.0.0.2"} : Send(KeyMsg(k))

InitUpdate == InitWith(InitConfigs, {<<>>, <<"10.0.0.1">>}, BOOLEAN)

NextUpdate ==
  \/ SendFetchResult
  \/ SendKey
  \/ ClockAdvance

SpecUpdate == InitUpdate /\ [][NextUpdate]_vars

\* Update called twice by a caller that keeps the model value it passed:
\* Update has a value receiver, so the caller's copy keeps its own slice
\* headers (deviceOrder, logs), prompt fields and sizes, while the devices
\* map, the *Device values in it and the *Config are shared with the copy
\* Update worked on.
ValueFields == [deviceOrder |-> deviceOrder, logs |-> logs, width |-> width,
                height |-> height, showPrompt |-> showPrompt,
                promptStep |-> promptStep, promptInput |-> promptInput,
                pendingIP |-> pendingIP]

\* The model Update returns.
Returned == [devices |-> devices, deviceOrder |-> deviceOrder, config |-> config,
             logs |-> logs, width |-> width, height |-> height,
             showPrompt |-> showPrompt, promptStep |-> promptStep,
             promptInput |-> promptInput, pendingIP |-> pendingIP]

\* Messages of every kind Update has a case for.
ReplayMsgs ==
  FetchResults
    \cup {discoveredMsg(d) : d \in Found}
    \cup {discoveryBatchMsg(<<d>>) : d \in Found}
    \cup {KeyMsg("enter"), tickMsg, WindowSizeMsg(80, 24)}

\* The first call: the caller keeps the value it passed.
SendFirst == \E m \in ReplayMsgs :
  /\ held.phase = "none"
  /\ msg' = m
  /\ Update(m)
  /\ InBounds
  /\ held' = [phase |-> "once", start |-> ValueFields, first |-> Returned']
  /\ UNCHANGED <<runtimeVars, now, grid, cell, disc>>

\* The caller takes up the value it kept: its fields by value are as they
\* were, what it shares with the first call's copy is as that call left it.
TakeHeld ==
  /\ held.phase = "once"
  /\ deviceOrder' = held.start.deviceOrder
  /\ logs' = held.start.logs
  /\ width' = held.start.width
  /\ height' = held.start.height
  /\ showPrompt' = held.start.showPrompt
  /\ promptStep' = held.start.promptStep
  /\ promptInput' = held.start.promptInput
  /\ pendingIP' = held.start.pendingIP
  /\ held' = [held EXCEPT !.phase = "taken"]
  /\ UNCHANGED <<devices, config, noDiscovery, pollInterval, fahrenheit, discoveryCtx,
                 msg, grid, cell, disc, cmds, runtimeVars, now, historyVars>>

\* The second call, with the same message.
SendAgain ==
  /\ held.phase = "taken"
  /\ msg' = msg
  /\ Update(msg)
  /\ InBounds
  /\ held' = [held EXCEPT !.phase = "twice"]
  /\ UNCHANGED <<runtimeVars, now, grid, cell, disc>>

\* Keys that bring the prompt to its name step, before the first call.
SendPromptKey == \E k \in {"a", "10.0.0.2", "enter"} :
  /\ held.phase = "none"
  /\ Send(KeyMsg(k))

InitReplay == InitWith(InitConfigs, {<<>>, <<"10.0.0.1">>}, {TRUE})

NextReplay ==
  \/ SendPromptKey
  \/ SendFirst
  \/ TakeHeld
  \/ SendAgain

SpecReplay == InitReplay /\ [][NextReplay]_vars

\* Update called on two model values that differ in the prompt only: one
\* with the prompt closed, one with it open, and the same message.
\* Messages of every kind but keys.
BackgroundMsgs == ReplayMsgs \ {KeyMsg("enter")}

\* What a call of Update leaves in the registry and the log, with the
\* batch it returns.
Effect == [devices |-> devices, deviceOrder |-> deviceOrder, config |-> config,
           logs |-> logs, cmds |-> cmds]

\* The model value before a call, but for its prompt.
Dashboard == [devices |-> devices, deviceOrder |-> deviceOrder, config |-> config,
              logs |-> logs, width |-> width, height |-> height]

\* The prompt as handleKey and handlePromptKey leave it open: at the ip
\* step with or without text, at the name step with a pending IP.
OpenPrompts ==
  {[promptStep |-> "ip", pendingIP |-> "", promptInput |-> input] :
     input \in {<<>>, <<"10.0.0.2">>, <<"not-an-ip">>}}
    \cup {[promptStep |-> "name", pendingIP |-> ip, promptInput |-> input] :
            ip \in IPs, input \in {<<>>, <<"kitchen">>}}

\* Messages that bring the registry to the state of the two calls: devices
\* found, a reading, a failed fetch.
EarlierMsgs ==
  {discoveredMsg(d) : d \in Found}
    \cup {pollResultMsg(ip, "r1", Nil) : ip \in IPs}
    \cup {pollResultMsg(ip, Nil, "timeout") : ip \in IPs}

SendBefore == \E m \in EarlierMsgs :
  /\ held.phase = "none"
  /\ Send(m)

\* The call with the prompt closed.
SendClosed == \E m \in BackgroundMsgs :
  /\ held.phase = "none"
  /\ ~showPrompt
  /\ msg' = m
  /\ Update(m)
  /\ InBounds
  /\ held' = [phase |-> "closed", start |-> Dashboard, first |-> Effect']
  /\ UNCHANGED <<runtimeVars, now, grid, cell, disc>>

\* The same model value with the prompt open.
OpenHeld == \E p \in OpenPrompts :
  /\ held.phase = "closed"
  /\ devices' = held.start.devices
  /\ deviceOrder' = held.start.deviceOrder
  /\ config' = held.start.config
  /\ logs' = held.start.logs
  /\ width' = held.start.width
  /\ height' = held.start.height
  /\ showPrompt' = TRUE
  /\ promptStep' = p.promptStep
  /\ pendingIP' = p.pendingIP
  /\ promptInput' = p.promptInput
  /\ held' = [held EXCEPT !.phase = "open"]
  /\ UNCHANGED <<noDiscovery, pollInterval, fahrenheit, discoveryCtx,
                 msg, grid, cell, disc, cmds, runtimeVars, now, historyVars>>

\* The call with the prompt open, with the same message.
SendOpen ==
  /\ held.phase = "open"
  /\ msg' = msg
  /\ Update(msg)
  /\ InBounds
  /\ held' = [held EXCEPT !.phase = "done"]
  /\ UNCHANGED <<runtimeVars, now, grid, cell, disc>>

InitSuspend == InitWith(InitConfigs, {<<>>, <<"10.0.0.1">>}, {TRUE})

NextSuspend ==
  \/ SendBefore
  \/ SendClosed
  \/ OpenHeld
  \/ SendOpen

SpecSuspend == InitSuspend /\ [][NextSuspend]_vars

----------------------------------------------------------------------------
(* StartDiscovery: the outer goroutine that queries in rounds and closes   *)
(* the output channel ch when it returns, one forwarding goroutine per     *)
(* round that ranges over that round's entries channel and sends on ch,    *)
(* and the context both select on.  disc.fwd[k] is where the forwarder of  *)
(* round k stands: "range" at the head of its loop, "select" with an entry *)
(* in hand before its select is evaluated, "parked" inside a select that   *)
(* found no case ready, "done" once returned, "panicked" once it sent on   *)
(* the closed channel, which ends the process.                             *)

Rounds == 1..MaxRounds

\* What mdns.Query may put on the entries channel: the service of an Awair
\* at each address, another service, and an Awair without an IPv4 address.
\* Name is the instance name followed by the service type and domain.
MdnsEntries ==
  {[Instance |-> MdnsName(ip), Service |-> "._http._tcp.local.", AddrV4 |-> ip] :
     ip \in IPs}
    \cup {[Instance |-> "Printer", Service |-> "._http._tcp.local.", AddrV4 |-> "10.0.0.1"],
          [Instance |-> MdnsName("10.0.0.2"), Service |-> "._http._tcp.local.", AddrV4 |-> Nil]}

\* strings.Contains(strings.ToLower(entry.Name), "awair")
IsAwair(e) == \E ip \in IPs : e.Instance = MdnsName(ip)

\* The DiscoveredDevice the forwarder makes of an entry: the name up to the
\* service type, and the address as text.
DiscoveredDevice(e) == [Name |-> e.Instance, IP |-> e.AddrV4]

\* A goroutine of the call takes a step; the program is as it was.
Goroutine(d) ==
  /\ disc' = d
  /\ UNCHANGED <<modelVars, msg, held, grid, cell, cmds, runtimeVars, now, historyVars>>

\* A forwarder has sent on the closed channel: the process is gone.
Crashed == \E k \in Rounds : disc.fwd[k] = "panicked"

\* ch is closed: the outer goroutine has returned (defer close(ch)).
ChClosed == disc.outer = "returned"

\* StartDiscovery is called: the outer goroutine makes the entries of the
\* first round, starts its forwarder and enters mdns.Query.
Started(mode) ==
  [NoPass EXCEPT !.mode = mode, !.outer = "query", !.round = 1, !.fwd[1] = "range"]

\* main starts the discovery loop unless --no-discovery was given.
MainStarts ==
  /\ disc.mode = "none"
  /\ discoveryCtx # "nil"
  /\ Goroutine(Started("main"))

\* The runtime runs a discoverCmd: StartDiscovery under a context with a
\* deadline, one call at a time followed.
PassStarts ==
  /\ ~Crashed
  /\ scans > 0
  /\ disc.mode \in {"none", "delivered"}
  /\ \A k \in Rounds : disc.fwd[k] \in {"none", "done"}
  /\ Goroutine(Started("pass"))

\* mdns.Query reports a service on the entries channel of the round.
MdnsReports == \E e \in MdnsEntries :
  /\ ~Crashed
  /\ disc.outer = "query"
  /\ disc.queried[disc.round] < MaxEntries
  /\ Goroutine([disc EXCEPT !.entries[disc.round] = Append(@, e),
                            !.queried[disc.round] = @ + 1])

\* mdns.Query returns at its timeout; the outer goroutine closes entries
\* and enters its select.
QueryEnds ==
  /\ ~Crashed
  /\ disc.outer = "query"
  /\ Goroutine([disc EXCEPT !.closed[disc.round] = TRUE, !.outer = "wait"])

\* The 30 seconds pass: the next round, with its own entries and forwarder.
\* A one-shot pass has a deadline of 10 seconds and never gets there.
Requery ==
  /\ ~Crashed
  /\ disc.mode = "main"
  /\ disc.outer = "wait"
  /\ disc.round < MaxRounds
  /\ Goroutine([disc EXCEPT !.round = @ + 1, !.outer = "query",
                            !.fwd[disc.round + 1] = "range"])

\* The select of the outer goroutine takes ctx.Done: it returns, and the
\* deferred close(ch) runs.
OuterReturns ==
  /\ ~Crashed
  /\ disc.outer = "wait"
  /\ disc.ctx = "done"
  /\ Goroutine([disc EXCEPT !.outer = "returned"])

\* The context is done: the quit keys called main's cancel function, or
\* the deadline of a one-shot pass passed.  A forwarder parked in its
\* select is woken by ctx.Done and returns.
Cancelled ==
  /\ ~Crashed
  /\ disc.mode \in {"main", "pass"}
  /\ disc.ctx = "live"
  /\ disc.mode = "main" => discoveryCtx = "cancelled"
  /\ Goroutine([disc EXCEPT !.ctx = "done",
                            !.fwd = [k \in Rounds |->
                                       IF disc.fwd[k] = "parked" THEN "done"
                                       ELSE disc.fwd[k]]])

\* The forwarder of round k receives an entry and filters it.
FwdTake(k) ==
  /\ ~Crashed
  /\ disc.fwd[k] = "range"
  /\ disc.entries[k] # <<>>
  /\ LET e == Head(disc.entries[k])
     IN  IF IsAwair(e) /\ e.AddrV4 # Nil
         THEN Goroutine([disc EXCEPT !.entries[k] = Tail(@), !.fwd[k] = "select",
                                      !.entry[k] = <<e>>])
         ELSE Goroutine([disc EXCEPT !.entries[k] = Tail(@)])

\* Its range ends: entries is closed and empty.
FwdEnd(k) ==
  /\ ~Crashed
  /\ disc.fwd[k] = "range"
  /\ disc.entries[k] = <<>>
  /\ disc.closed[k]
  /\ Goroutine([disc EXCEPT !.fwd[k] = "done"])

\* Its select finds no case ready: ch is open with no receiver waiting,
\* and the context is live.
FwdPark(k) ==
  /\ ~Crashed
  /\ disc.fwd[k] = "select"
  /\ ~ChClosed
  /\ disc.ctx = "live"
  /\ Goroutine([disc EXCEPT !.fwd[k] = "parked"])

\* The send on ch goes through: the reader of ch has the device.
FwdSend(k) ==
  /\ ~Crashed
  /\ disc.fwd[k] \in {"select", "parked"}
  /\ ~ChClosed
  /\ Goroutine([disc EXCEPT !.fwd[k] = "range", !.entry[k] = <<>>,
                            !.found = Append(@, DiscoveredDevice(disc.entry[k][1]))])

\* Its select takes ctx.Done: it returns.
FwdDone(k) ==
  /\ ~Crashed
  /\ disc.fwd[k] = "select"
  /\ disc.ctx = "done"
  /\ Goroutine([disc EXCEPT !.fwd[k] = "done", !.entry[k] = <<>>])

\* Its select takes the send, and ch is closed: send on closed channel.
FwdPanic(k) ==
  /\ ~Crashed
  /\ disc.fwd[k] = "select"
  /\ ChClosed
  /\ Goroutine([disc EXCEPT !.fwd[k] = "panicked"])

\* discoverCmd: its range over ch ends when ch is closed, and the message
\* it returns goes through Update.
PassReturns ==
  /\ ~Crashed
  /\ disc.mode = "pass"
  /\ ChClosed
  /\ scans > 0
  /\ Handle(discoveryBatchMsg(disc.found), [Runtime EXCEPT !.scans = @ - 1])
  /\ disc' = [disc EXCEPT !.mode = "delivered"]

\* The discovery loop of main, with the quit keys.
InitStartDiscovery == InitWith({[ip \in IPs |-> ""]}, {<<>>}, {FALSE})

QuitPressed == ~Crashed /\ KeyPressIn({"q"})

NextStartDiscovery ==
  \/ MainStarts
  \/ QuitPressed
  \/ Cancelled
  \/ MdnsReports
  \/ QueryEnds
  \/ Requery
  \/ OuterReturns
  \/ \E k \in Rounds : FwdTake(k)
  \/ \E k \in Rounds : FwdEnd(k)
  \/ \E k \in Rounds : FwdPark(k)
  \/ \E k \in Rounds : FwdSend(k)
  \/ \E k \in Rounds : FwdDone(k)
  \/ \E k \in Rounds : FwdPanic(k)

\* Every goroutine that can take a step takes one, and mdns.Query returns.
SpecStartDiscovery ==
  /\ InitStartDiscovery
  /\ [][NextStartDiscovery]_vars
  /\ WF_vars(QueryEnds)
  /\ WF_vars(OuterReturns)
  /\ \A k \in Rounds : WF_vars(FwdTake(k) \/ FwdEnd(k) \/ FwdDone(k) \/ FwdPanic(k))

\* A one-shot pass started with the d key; the log has room for what the
\* pass will report.
RestartPressed ==
  /\ ~Crashed
  /\ scans = 0
  /\ logs = <<>>
  /\ KeyPressIn({"d"})

NextPass ==
  \/ RestartPressed
  \/ PassStarts
  \/ Cancelled
  \/ MdnsReports
  \/ QueryEnds
  \/ OuterReturns
  \/ \E k \in Rounds : FwdTake(k)
  \/ \E k \in Rounds : FwdEnd(k)
  \/ \E k \in Rounds : FwdPark(k)
  \/ \E k \in Rounds : FwdSend(k)
  \/ \E k \in Rounds : FwdDone(k)
  \/ \E k \in Rounds : FwdPanic(k)
  \/ PassReturns

\* The runtime runs the commands it is given, the deadline passes,
\* mdns.Query returns, every goroutine that can take a step takes one, and
\* the reader of ch receives what is sent to it.
SpecPass ==
  /\ InitStartDiscovery
  /\ [][NextPass]_vars
  /\ WF_vars(PassStarts)
  /\ WF_vars(Cancelled)
  /\ WF_vars(QueryEnds)
  /\ WF_vars(OuterReturns)
  /\ WF_vars(PassReturns)
  /\ \A k \in Rounds :
       WF_vars(FwdTake(k) \/ FwdEnd(k) \/ FwdSend(k) \/ FwdDone(k) \/ FwdPanic(k))

----------------------------------------------------------------------------
(* The layout of the device grid: View, gridCols, renderDeviceGrid. *)

\* The lines View keeps for the header, the log panel and the status bar.
headerHeight == 2
logHeight == 6
statusHeight == 1

\* gridCols with three columns for four devices as well.
gridColsThree(n) ==
  IF n <= 2 THEN n
  ELSE IF n <= 6 THEN 3
  ELSE 3

gridCols(n) ==
  IF n <= 2 THEN n
  ELSE IF n = 4 THEN 2
  ELSE IF n <= 6 THEN 3
  ELSE 3

\* Go's a / b for b > 0: the quotient truncated towards zero.
Quot(a, b) == IF a >= 0 THEN a \div b ELSE 0 - ((0 - a) \div b)

\* The cells renderDeviceGrid lays out for n devices in w columns and
\* gridHeight lines: per row and column the device index, the cell's width and
\* height, and whether the cell is empty.
renderDeviceGrid(n, w, gridHeight) ==
  LET cols == gridCols(n)
      rows == Quot(n + cols - 1, cols)
      boxWidth == Quot(w, cols)
      boxHeight == Quot(gridHeight, rows)
  IN  [n |-> n, width |-> w, height |-> gridHeight, cols |-> cols, rows |-> rows,
       cells |-> [row \in 0..(rows - 1) |->
                    [col \in 0..(cols - 1) |->
                       [idx |-> row * cols + col,
                        w |-> IF col = cols - 1 THEN w - (cols - 1) * boxWidth
                              ELSE boxWidth,
                        h |-> boxHeight,
                        empty |-> row * cols + col >= n]]]]

\* What View lays out as the grid of n devices on a terminal of w by h.
View(n, w, h) ==
  IF w = 0 \/ h = 0 THEN NoGrid
  ELSE renderDeviceGrid(n, w, h - headerHeight - logHeight - statusHeight)

\* View is called for a model with n devices and a terminal of w by h.
Render == \E n \in 1..MaxDevices, w \in 0..MaxWidth, h \in 0..MaxHeight :
  /\ grid' = View(n, w, h)
  /\ UNCHANGED <<modelVars, msg, held, cell, disc, cmds, runtimeVars, now, historyVars>>

InitGrid == InitWith({[ip \in IPs |-> ""]}, {<<"10.0.0.1">>}, {TRUE})

SpecGrid == InitGrid /\ [][Render]_vars

----------------------------------------------------------------------------
(* The box of one device: ratings, values and bars.  Sensor values are     *)
(* held in tenths of their unit; the values that are rated and drawn are   *)
(* in hundredths, so that the conversion to Fahrenheit is exact.           *)

\* Hundredths in a unit, and tenths in a unit.
Hundredths == 100
Tenths == 10

MandatoryKeys == <<"temp", "humid", "co2", "voc", "pm25">>
OptionalKeys == <<"dew_point", "abs_humid", "co2_est", "pm10_est">>
SensorKeys == MandatoryKeys \o OptionalKeys

OptimalRanges ==
  [temp      |-> [Min |-> 68, Max |-> 77, Unit |-> "°F"],
   dew_point |-> [Min |-> 50, Max |-> 65, Unit |-> "°F"],
   humid     |-> [Min |-> 40, Max |-> 50, Unit |-> "%"],
   abs_humid |-> [Min |-> 4, Max |-> 12, Unit |-> "g/m³"],
   co2       |-> [Min |-> 0, Max |-> 600, Unit |-> "ppm"],
   co2_est   |-> [Min |-> 0, Max |-> 600, Unit |-> "ppm"],
   voc       |-> [Min |-> 0, Max |-> 300, Unit |-> "ppb"],
   pm25      |-> [Min |-> 0, Max |-> 12, Unit |-> "µg/m³"],
   pm10_est  |-> [Min |-> 0, Max |-> 50, Unit |-> "µg/m³"]]

\* c*9/5 + 32, from tenths of a degree Celsius to hundredths of a degree
\* Fahrenheit.
CToF(c) == c * 18 + 32 * Hundredths

\* The value that is rated and drawn, in hundredths.
DisplayValue(key, raw) ==
  IF key = "temp" \/ key = "dew_point" THEN CToF(raw)
  ELSE raw * (Hundredths \div Tenths)

\* The rating of a tolerance band: good inside [lo, hi], fair up to tol
\* outside it, poor beyond.
Banded(value, lo, hi, tol) ==
  IF value >= lo /\ value <= hi THEN "good"
  ELSE LET dist == IF value > hi THEN value - hi ELSE lo - value
       IN  IF dist <= tol THEN "fair" ELSE "poor"

\* RateSensorValue rating the lower-is-better sensors fair up to three
\* times the maximum.
RateSensorValueThrice(key, value) ==
  IF key \notin DOMAIN OptimalRanges THEN "fair"
  ELSE LET lo == OptimalRanges[key].Min * Hundredths
           hi == OptimalRanges[key].Max * Hundredths
       IN  CASE key \in {"temp", "dew_point"} -> Banded(value, lo, hi, 5 * Hundredths)
             [] key = "humid" -> Banded(value, lo, hi, 10 * Hundredths)
             [] key = "abs_humid" ->
                  IF value >= lo /\ value <= hi THEN "good" ELSE "fair"
             [] OTHER ->
                  IF value <= hi THEN "good"
                  ELSE IF value <= hi * 3 THEN "fair"
                  ELSE "poor"

\* RateSensorValue with a poor tier for absolute humidity.
RateSensorValueAbsPoor(key, value) ==
  IF key \notin DOMAIN OptimalRanges THEN "fair"
  ELSE LET lo == OptimalRanges[key].Min * Hundredths
           hi == OptimalRanges[key].Max * Hundredths
       IN  CASE key \in {"temp", "dew_point"} -> Banded(value, lo, hi, 5 * Hundredths)
             [] key = "humid" -> Banded(value, lo, hi, 10 * Hundredths)
             [] key = "abs_humid" -> Banded(value, lo, hi, 10 * Hundredths)
             [] OTHER ->
                  IF value <= hi THEN "good"
                  ELSE IF value <= hi * 2 THEN "fair"
                  ELSE "poor"

RateSensorValue(key, value) ==
  IF key \notin DOMAIN OptimalRanges THEN "fair"
  ELSE LET lo == OptimalRanges[key].Min * Hundredths
           hi == OptimalRanges[key].Max * Hundredths
       IN  CASE key \in {"temp", "dew_point"} -> Banded(value, lo, hi, 5 * Hundredths)
             [] key = "humid" -> Banded(value, lo, hi, 10 * Hundredths)
             [] key = "abs_humid" ->
                  IF value >= lo /\ value <= hi THEN "good" ELSE "fair"
             [] OTHER ->
                  IF value <= hi THEN "good"
                  ELSE IF value <= hi * 2 THEN "fair"
                  ELSE "poor"

\* "%.1f" of a value given in tenths (not negative).
Fixed1(x) == ToString(x \div Tenths) \o "." \o ToString(x % Tenths)

\* A value in tenths or hundredths rounded to the next coarser digit.
Rounded(x) == (x + 5) \div 10

FormatValue(key, raw, fahr) ==
  CASE key \in {"temp", "dew_point"} ->
         IF fahr THEN Fixed1(Rounded(CToF(raw))) \o "°F"
         ELSE Fixed1(raw) \o "°C"
    [] key = "humid" -> Fixed1(raw) \o OptimalRanges[key].Unit
    [] key = "abs_humid" -> Fixed1(raw) \o " " \o OptimalRanges[key].Unit
    [] OTHER -> ToString(Rounded(raw)) \o " " \o OptimalRanges[key].Unit

\* A bar of cols characters of which int(ratio * cols) are filled, for
\* the ratio clamp01(num / den).
Bar(num, den, cols) ==
  LET filled == IF num < 0 THEN 0
                ELSE IF num > den THEN cols
                ELSE (num * cols) \div den
  IN  [filled |-> filled, empty |-> cols - filled]

\* No bar: the empty string.
NoBar == [filled |-> 0, empty |-> 0]

renderGauge(score, cols) ==
  IF cols <= 0 THEN NoBar ELSE Bar(score, 100, cols)

renderSensorBar(key, value, cols) ==
  IF cols <= 0 THEN NoBar
  ELSE CASE key = "temp" -> Bar(value - 50 * Hundredths, 54 * Hundredths, cols)
         [] key = "dew_point" -> Bar(value - 30 * Hundredths, 50 * Hundredths, cols)
         [] key = "humid" -> Bar(value, 100 * Hundredths, cols)
         [] key = "abs_humid" -> Bar(value, 25 * Hundredths, cols)
         [] key \in {"co2", "co2_est"} -> Bar(value, 2500 * Hundredths, cols)
         [] key = "voc" -> Bar(value, 1500 * Hundredths, cols)
         [] key = "pm10_est" -> Bar(value, 200 * Hundredths, cols)
         [] OTHER -> Bar(value, 100 * Hundredths, cols)

\* The inner content cols renderDeviceGrid gives a box w wide.
innerWidth(w) == IF w - 4 < 10 THEN 10 ELSE w - 4

\* The three modes of a device box: the error with "Retrying" when the
\* device has an error and no reading, "Connecting" when it has neither,
\* the reading otherwise.
modeOf(dev) ==
  IF dev.LastError # Nil /\ dev.Data.nil THEN "error"
  ELSE IF dev.Data.nil THEN "connecting"
  ELSE "reading"

\* renderDeviceContent drawing the bars whatever their cols.
renderDeviceContentBarred(dev, cols, fahr) ==
  IF modeOf(dev) # "reading"
  THEN [mode |-> modeOf(dev), barWidth |-> 0, bars |-> <<>>, lines |-> <<>>]
  ELSE
    LET d == dev.Data
        barWidth == cols - 30
        sensors == SelectSeq(SensorKeys, LAMBDA k :
                     (\E i \in 1..Len(MandatoryKeys) : MandatoryKeys[i] = k)
                       \/ k \in d.optional)
        line(k) == LET ratingVal == DisplayValue(k, d.values[k])
                   IN  [Key |-> k,
                        rating |-> RateSensorValue(k, ratingVal),
                        valStr |-> FormatValue(k, d.values[k], fahr),
                        bar |-> Bar(ratingVal, 100 * Hundredths, barWidth)]
    IN  [mode |-> "reading",
         barWidth |-> barWidth,
         bars |-> <<[filled |-> 0, empty |-> barWidth]>>
                    \o [i \in 1..Len(sensors) |-> line(sensors[i]).bar],
         lines |-> [i \in 1..Len(sensors) |-> line(sensors[i])]]

\* renderDeviceContent rating and drawing the value in the unit it shows.
renderDeviceContentInUnit(dev, cols, fahr) ==
  IF modeOf(dev) # "reading"
  THEN [mode |-> modeOf(dev), barWidth |-> 0, bars |-> <<>>, lines |-> <<>>]
  ELSE
    LET d == dev.Data
        barWidth == IF cols - 30 < 0 THEN 0 ELSE cols - 30
        sensors == SelectSeq(SensorKeys, LAMBDA k :
                     (\E i \in 1..Len(MandatoryKeys) : MandatoryKeys[i] = k)
                       \/ k \in d.optional)
        line(k) == LET ratingVal == IF fahr THEN DisplayValue(k, d.values[k])
                                    ELSE d.values[k] * (Hundredths \div Tenths)
                   IN  [Key |-> k,
                        rating |-> RateSensorValue(k, ratingVal),
                        valStr |-> FormatValue(k, d.values[k], fahr),
                        bar |-> IF barWidth > 0
                                THEN renderSensorBar(k, ratingVal, barWidth)
                                ELSE NoBar]
    IN  [mode |-> "reading",
         barWidth |-> barWidth,
         bars |-> IF barWidth > 0
                  THEN <<renderGauge(d.Score, barWidth)>>
                         \o [i \in 1..Len(sensors) |-> line(sensors[i]).bar]
                  ELSE <<>>,
         lines |-> [i \in 1..Len(sensors) |-> line(sensors[i])]]

\* What renderDeviceContent puts in the box of dev: its mode, the bar
\* cols, the bars it draws (the score gauge first) and one line per sensor
\* with its rating, its formatted value and its bar.
renderDeviceContent(dev, cols, fahr) ==
  IF modeOf(dev) # "reading"
  THEN [mode |-> modeOf(dev), barWidth |-> 0, bars |-> <<>>, lines |-> <<>>]
  ELSE
    LET d == dev.Data
        barWidth == IF cols - 30 < 0 THEN 0 ELSE cols - 30
        sensors == SelectSeq(SensorKeys, LAMBDA k :
                     (\E i \in 1..Len(MandatoryKeys) : MandatoryKeys[i] = k)
                       \/ k \in d.optional)
        line(k) == LET ratingVal == DisplayValue(k, d.values[k])
                   IN  [Key |-> k,
                        rating |-> RateSensorValue(k, ratingVal),
                        valStr |-> FormatValue(k, d.values[k], fahr),
                        bar |-> IF barWidth > 0
                                THEN renderSensorBar(k, ratingVal, barWidth)
                                ELSE NoBar]
    IN  [mode |-> "reading",
         barWidth |-> barWidth,
         bars |-> IF barWidth > 0
                  THEN <<renderGauge(d.Score, barWidth)>>
                         \o [i \in 1..Len(sensors) |-> line(sensors[i]).bar]
                  ELSE <<>>,
         lines |-> [i \in 1..Len(sensors) |-> line(sensors[i])]]

\* A device without a reading, and the reading of a healthy room.
NoData == [nil |-> TRUE]
DefaultData ==
  [nil |-> FALSE, Score |-> 80,
   values |-> [temp |-> 215, humid |-> 450, co2 |-> 5000, voc |-> 1000,
               pm25 |-> 50, dew_point |-> 100, abs_humid |-> 80,
               co2_est |-> 5000, pm10_est |-> 100],
   optional |-> {"dew_point", "abs_humid", "co2_est", "pm10_est"}]

\* The sensor values of a reading of the registry.
SensorDataOf(data) ==
  IF data = "r1" THEN DefaultData
  ELSE [DefaultData EXCEPT !.Score = 55, !.values["co2"] = 9000, !.optional = {}]

\* A device of the registry as renderDeviceContent is given it.
Boxed(dev) ==
  [LastError |-> dev.LastError,
   Data |-> IF dev.Data = Nil THEN NoData ELSE SensorDataOf(dev.Data)]

\* The mode of the box of a device of the registry.
cellMode(dev) == modeOf(Boxed(dev))

\* View renders the box of dev in a cell w wide.
RenderCell(dev, w) ==
  /\ cell' = [w |-> w, dev |-> dev, fahrenheit |-> fahrenheit,
              width |-> innerWidth(w),
              content |-> renderDeviceContent(dev, innerWidth(w), fahrenheit)]
  /\ UNCHANGED <<modelVars, msg, held, grid, disc, cmds, runtimeVars, now, historyVars>>

\* Boxes of every width: a device in each of its modes, with scores
\* inside and outside 0..100 and with or without the optional sensors.
CellDevices ==
  {[LastError |-> e, Data |-> d] :
     e \in {Nil} \cup FetchErrors,
     d \in {NoData}
            \cup {[DefaultData EXCEPT !.Score = sc, !.optional = o] :
                    sc \in {0 - 1, 55, 101},
                    o \in {{}, {"dew_point", "abs_humid", "co2_est", "pm10_est"}}}}

RenderAnyWidth == \E dev \in CellDevices, w \in 1..MaxCellWidth : RenderCell(dev, w)

InitCell == InitWith({[ip \in IPs |-> ""]}, {<<"10.0.0.1">>}, {TRUE})

SpecCell == InitCell /\ [][RenderAnyWidth]_vars

\* Values, in tenths, on both sides of every limit RateSensorValue has
\* for a sensor.
LowerProbes(key) ==
  LET m == OptimalRanges[key].Max * Tenths
  IN  {0, m - 1, m, m + 1, 2 * m - 1, 2 * m, 2 * m + 1, 3 * m, 3 * m + 1}

Probes(key) ==
  CASE key = "temp" -> 160..290
    [] key = "dew_point" -> 60..220
    [] key = "humid" -> {0, 299, 300, 301, 399, 400, 401, 499, 500, 501,
                         599, 600, 601, 1000}
    [] key = "abs_humid" -> {0, 39, 40, 41, 119, 120, 121, 220, 221, 500}
    [] OTHER -> LowerProbes(key)

\* View renders a reading that differs from DefaultData in one sensor.
RenderProbe == \E i \in 1..Len(SensorKeys) : \E v \in Probes(SensorKeys[i]) :
  RenderCell([LastError |-> Nil,
              Data |-> [DefaultData EXCEPT !.values[SensorKeys[i]] = v]],
             MaxCellWidth)

\* Ratings: boxes wide enough for bars, in either unit.
InitRating ==
  InitAll({[ip \in IPs |-> ""]}, {<<"10.0.0.1">>}, {TRUE}, {DefaultInterval}, BOOLEAN)

SpecRating == InitRating /\ [][RenderProbe]_vars

TypeOK ==
  /\ DOMAIN devices \subseteq IPs
  /\ \A ip \in DOMAIN devices : devices[ip].Data \in Readings \cup {Nil}
  /\ now \in 1..MaxTime
  /\ discoveryCtx \in {"nil", "live", "cancelled"}
  /\ pollInterval \in Int
  /\ held.phase \in {"none", "once", "taken", "twice", "closed", "open", "done"}
  /\ disc.mode \in {"none", "main", "pass", "delivered"}
  /\ disc.ctx \in {"live", "done"}
  /\ disc.outer \in {"idle", "query", "wait", "returned"}
  /\ disc.round \in 0..MaxRounds
  /\ \A k \in Rounds :
       /\ disc.fwd[k] \in {"none", "range", "select", "parked", "done", "panicked"}
       /\ Len(disc.entries[k]) <= disc.queried[k]
       /\ disc.queried[k] <= MaxEntries
  /\ noDiscovery => discoveryCtx = "nil"

----------------------------------------------------------------------------
(* The registry. *)

OrderSet == {deviceOrder[i] : i \in 1..Len(deviceOrder)}

\* C1: in every reachable state deviceOrder holds each IP exactly once, the
\* IPs it holds are exactly the keys of devices, and each device's IP field
\* is the key it is stored under.
C1_RegistryConsistent ==
  /\ \A i, j \in 1..Len(deviceOrder) : deviceOrder[i] = deviceOrder[j] => i = j
  /\ OrderSet = DOMAIN devices
  /\ \A ip \in DOMAIN devices : devices[ip].IP = ip

\* Two devices are registered, and discovery has since reported both again.
C1_Witness ==
  /\ Len(deviceOrder) = 2
  /\ advertised = IPs
  /\ Len(logs) > Len(deviceOrder)

\* C2: orderedDevices lists the distinct IPs passed to addDevice, in the
\* order of their first call, one device each; and every step leaves
\* deviceOrder as it was or appends to its end.
C2_FirstSeenOrder ==
  /\ [](/\ Len(orderedDevices) = Len(upserted)
        /\ \A i \in 1..Len(upserted) : orderedDevices[i].IP = upserted[i])
  /\ [][/\ Len(deviceOrder') >= Len(deviceOrder)
        /\ SubSeq(deviceOrder', 1, Len(deviceOrder)) = deviceOrder]_vars

\* The prompt has added a second device, under a typed name, behind the
\* one registered first.
C2_Witness ==
  /\ upserted = <<"10.0.0.1", "10.0.0.2">>
  /\ Len(orderedDevices) = 2
  /\ config["10.0.0.2"] = "kitchen"

----------------------------------------------------------------------------
(* Poll results. *)

\* C3: a PollResult carrying a reading for a known device stores that
\* reading, clears the device's last error and stamps the time of
\* processing; one carrying an error stores the error and leaves the
\* reading and the last-update time as they were.
C3_PollResultRecorded ==
  [][\A ip \in DOMAIN devices : \A i \in 1..MaxInFlight :
       /\ \A data \in Readings :
            PollResult(ip, i, data, Nil) =>
              /\ devices'[ip].Data = data
              /\ devices'[ip].LastError = Nil
              /\ devices'[ip].LastUpdate = now
       /\ \A err \in FetchErrors :
            PollResult(ip, i, Nil, err) =>
              /\ devices'[ip].LastError = err
              /\ devices'[ip].Data = devices[ip].Data
              /\ devices'[ip].LastUpdate = devices[ip].LastUpdate]_vars

\* A device shows a reading stamped earlier together with a later error,
\* the other a reading stamped now and no error.
C3_Witness ==
  /\ now = 2
  /\ DOMAIN devices = IPs
  /\ devices["10.0.0.1"].Data = "r1"
  /\ devices["10.0.0.1"].LastError = "timeout"
  /\ devices["10.0.0.1"].LastUpdate = 1
  /\ devices["10.0.0.2"].Data = "r2"
  /\ devices["10.0.0.2"].LastError = Nil
  /\ devices["10.0.0.2"].LastUpdate = 2

\* C4: a PollResult or ConfigResult for an IP the registry does not hold
\* changes no device, adds none, logs nothing, returns no command and
\* leaves deviceOrder, the name map and the prompt as they were.
C4_UnknownIPIgnored ==
  [][\A m \in FetchResults :
       (m.IP \notin DOMAIN devices /\ Send(m)) =>
         /\ cmds' = <<>>
         /\ UNCHANGED <<devices, deviceOrder, config, logs, promptVars>>]_vars

\* A config with a device_uuid arrived for an unregistered IP while the
\* prompt was open and a registered device held a reading.
C4_Witness ==
  /\ msg.type = "configResult"
  /\ msg.Config.DeviceUUID # ""
  /\ msg.IP \notin DOMAIN devices
  /\ showPrompt
  /\ \E ip \in DOMAIN devices : devices[ip].Data # Nil

\* C5: a reading never comes to be stored from a fetch that a fetch issued
\* after it, for the same device, has already overtaken with a reading.
C5_NoStaleOverwrite ==
  [][\A ip \in DOMAIN devices : \A i \in 1..MaxInFlight : \A data \in Readings :
       PollResult(ip, i, data, Nil) => ~polls[ip][i]]_vars

\* C6: a device's reading changes only in the step that processes a
\* PollResult with a reading for its own IP, and then to that reading; a
\* PollResult for another IP leaves the whole device as it was.
C6_OwnLatestResult ==
  [][\A ip \in DOMAIN devices :
       /\ \/ devices'[ip].Data = devices[ip].Data
          \/ \E i \in 1..MaxInFlight : \E data \in Readings :
               PollResult(ip, i, data, Nil) /\ devices'[ip].Data = data
       /\ \A other \in IPs \ {ip} : \A i \in 1..MaxInFlight :
            \A data \in Readings \cup {Nil} : \A err \in FetchErrors \cup {Nil} :
              PollResult(other, i, data, err) => devices'[ip] = devices[ip]]_vars

\* Both devices hold a reading of their own, one of them an error too,
\* with fetches for both still open.
C6_Witness ==
  /\ DOMAIN devices = IPs
  /\ devices["10.0.0.1"].Data = "r1"
  /\ devices["10.0.0.2"].Data = "r2"
  /\ devices["10.0.0.2"].LastError = "timeout"
  /\ devices["10.0.0.1"].LastUpdate # devices["10.0.0.2"].LastUpdate
  /\ \A ip \in IPs : polls[ip] # <<>>

InCmds(c) == \E k \in 1..Len(cmds) : cmds[k] = c

\* C7: whatever becomes of the fetches of 10.0.0.1 (open for ever, or
\* failing), ticks go on being processed, each tick returns a fetch for
\* every registered device and the next tick, and results of 10.0.0.2 go
\* on being applied.
C7_OthersNotBlocked ==
  /\ []<><<Tick>>_vars
  /\ [][Tick => /\ InCmds(tickCmd)'
                /\ \A ip \in OrderSet : InCmds(pollCmd(ip))']_vars
  /\ []<><<PollReturns("10.0.0.2")>>_vars

\* Every tracked fetch of 10.0.0.1 is open and none has ever returned,
\* while 10.0.0.2 holds a reading applied after the clock moved on.
C7_Witness ==
  /\ Len(polls["10.0.0.1"]) = MaxInFlight
  /\ devices["10.0.0.1"].Data = Nil
  /\ devices["10.0.0.1"].LastError = Nil
  /\ devices["10.0.0.2"].Data # Nil
  /\ devices["10.0.0.2"].LastUpdate = MaxTime
  /\ ticks > 0

----------------------------------------------------------------------------
(* Names. *)

\* The name of highest precedence among those the program has been given
\* for ip: the config name, the name discovery advertised, the device_uuid
\* of the config attached to the device, the IP.
BestName(ip) ==
  IF config[ip] # "" THEN config[ip]
  ELSE IF ip \in advertised THEN MdnsName(ip)
  ELSE IF devices[ip].Config.DeviceUUID # "" THEN devices[ip].Config.DeviceUUID
  ELSE ip

\* C8: after any naming events, in any order, a device is named by the
\* name of highest precedence among those given for its IP so far
\* (config > discovery > device_uuid > IP).
C8_NameIsBestAvailable ==
  \A ip \in DOMAIN devices : devices[ip].Name = BestName(ip)

\* C9: a registered device whose IP has a non-empty name in the name map is
\* named exactly that, whatever the name (its IP too) and whatever
\* Discovered or ConfigResult messages have been processed.
C9_ConfigNameShown ==
  \A ip \in DOMAIN devices : config[ip] # "" => devices[ip].Name = config[ip]

\* The second step of the add-device prompt is confirmed for ip with name
\* typed: addDevice(ip, name) runs.
PromptUpsert(ip, name) ==
  /\ showPrompt
  /\ promptStep = "name"
  /\ pendingIP = ip
  /\ TrimSpace(promptInput) = name
  /\ Key("enter")

ConfigDerived(ip) == config[ip] # "" /\ devices[ip].Name = config[ip]
DiscoveryDerived(ip) == config[ip] = "" /\ devices[ip].Name = MdnsName(ip)

\* C10 as stated: an upsert of a device that has a config-derived or
\* discovery-derived name, proposing the empty name or the bare IP, leaves
\* the device's name as it was.
C10_NameKeptOnUpsert ==
  [][\A ip \in DOMAIN devices : \A name \in {"", ip} :
       (PromptUpsert(ip, name) /\ (ConfigDerived(ip) \/ DiscoveryDerived(ip)))
         => devices'[ip].Name = devices[ip].Name]_vars

\* C10, amended: such an upsert proposing the empty name leaves the name as
\* it was; one proposing the bare IP, which the prompt first writes to the
\* name map, names the device by its IP.
C10_NameKeptOnEmptyUpsert ==
  [][\A ip \in DOMAIN devices :
       (ConfigDerived(ip) \/ DiscoveryDerived(ip)) =>
         /\ PromptUpsert(ip, "") => /\ devices'[ip].Name = devices[ip].Name
                                    /\ config'[ip] = config[ip]
         /\ PromptUpsert(ip, ip) => /\ devices'[ip].Name = ip
                                    /\ config'[ip] = ip]_vars

\* The prompt has upserted 10.0.0.2 with no name typed, and logged it
\* under the name discovery gave it.
C10_Witness ==
  /\ "10.0.0.2" \in DOMAIN devices
  /\ devices["10.0.0.2"].Name = MdnsName("10.0.0.2")
  /\ \E k \in 1..Len(logs) :
       logs[k].Message = "Added device: " \o MdnsName("10.0.0.2") \o " (10.0.0.2)"

----------------------------------------------------------------------------
(* Config results. *)

\* C11: a ConfigResult with a config for a known device attaches the config
\* and names the device by the device_uuid exactly when the device_uuid is
\* non-empty and the name is the bare IP, leaving the name alone otherwise;
\* it leaves the reading, the error and the timestamp alone, and one
\* without a config changes nothing.
C11_ConfigResultRecorded ==
  [][\A ip \in DOMAIN devices :
       /\ \A cfg \in DeviceConfigs(ip) :
            Send(configResultMsg(ip, cfg)) =>
              /\ devices'[ip].Config = cfg
              /\ devices'[ip].Name =
                   IF cfg.DeviceUUID # "" /\ devices[ip].Name = ip
                   THEN cfg.DeviceUUID ELSE devices[ip].Name
              /\ devices'[ip].Data = devices[ip].Data
              /\ devices'[ip].LastError = devices[ip].LastError
              /\ devices'[ip].LastUpdate = devices[ip].LastUpdate
       /\ Send(configResultMsg(ip, NilConfig)) => devices' = devices]_vars

\* A config with a device_uuid was attached to a device that keeps its
\* config name, its reading and its error.
C11_Witness ==
  /\ msg.type = "configResult"
  /\ msg.IP \in DOMAIN devices
  /\ msg.Config.DeviceUUID # ""
  /\ devices[msg.IP].Config = msg.Config
  /\ devices[msg.IP].Name = "kitchen"
  /\ devices[msg.IP].Data # Nil
  /\ devices[msg.IP].LastError # Nil

----------------------------------------------------------------------------
(* The log. *)

\* C12: the log never holds more than 100 entries; a step that logs puts
\* the new entry last, behind the old entries in their order, without the
\* oldest of them when the log was full; and the entries rendered are the
\* last 4 of the log, or all of it when it is shorter.
C12_LogCapped ==
  /\ [](/\ Len(logs) <= 100
        /\ Len(visibleLogs(logs)) = (IF Len(logs) < 4 THEN Len(logs) ELSE 4)
        /\ \A i \in 1..Len(visibleLogs(logs)) :
             visibleLogs(logs)[i] = logs[Len(logs) - Len(visibleLogs(logs)) + i])
  /\ [][logs' # logs =>
          /\ logs'[Len(logs')].Time = now
          /\ SubSeq(logs', 1, Len(logs') - 1) =
               IF Len(logs) = 100 THEN Tail(logs) ELSE logs]_vars

\* The log is full, its three newest entries were written in this run (so
\* at least one entry was evicted), and an entry that was not the oldest
\* at the start is the oldest now.
C12_Witness ==
  /\ Len(logs) = LogCap
  /\ logs[LogCap - 2].Time = now
  /\ logs[LogCap - 3].Time < now
  /\ logs[1].Message = "Refreshing..."
  /\ logs[2].Message # "Refreshing..."
  /\ logs[LogCap].Message # logs[LogCap - 1].Message

----------------------------------------------------------------------------
(* The prompt. *)

AwaitingIP == showPrompt /\ promptStep = "ip"
AwaitingName == showPrompt /\ promptStep = "name"

\* C13: with the prompt open, a key other than esc and enter (q, ctrl+c,
\* r, a and d among them) changes nothing but the text of the prompt: the
\* program does not quit, no fetch, tick or discovery is returned or
\* started, and nothing is logged.
C13_PromptTakesKeys ==
  [][\A k \in PromptKeys \ {"esc", "enter"} :
       (showPrompt /\ Key(k)) =>
         /\ \A i \in 1..Len(cmds') :
              cmds'[i].cmd \notin {"quit", "poll", "config", "discover", "tick"}
         /\ UNCHANGED <<devices, deviceOrder, config, logs, sizeVars,
                        showPrompt, promptStep, pendingIP, noDiscovery, pollInterval, fahrenheit, discoveryCtx,
                        runtimeVars>>]_vars

\* The letter r was typed into the name field; nothing was logged and the
\* program runs.
C13_Witness ==
  /\ AwaitingName
  /\ promptInput = <<"r">>
  /\ logs = <<>>
  /\ ~quit
  /\ scans = 0

\* C14: the prompt comes to await the IP only by the key a pressed with
\* the prompt closed, the text cleared; it comes to await the name only
\* from awaiting the IP, by enter on a text that trimmed is a valid IP,
\* which becomes the pending IP, the text cleared.
C14_PromptSteps ==
  [][/\ (AwaitingIP' /\ ~AwaitingIP) =>
          /\ ~showPrompt
          /\ Key("a")
          /\ promptInput' = <<>>
     /\ (AwaitingName' /\ ~AwaitingName) =>
          /\ AwaitingIP
          /\ Key("enter")
          /\ TrimSpace(promptInput) \in IPs
          /\ pendingIP' = TrimSpace(promptInput)
          /\ promptInput' = <<>>]_vars

\* The prompt awaits the name for 10.0.0.2 after an invalid IP was turned
\* down and the prompt opened again.
C14_Witness ==
  /\ AwaitingName
  /\ pendingIP = "10.0.0.2"
  /\ promptInput = <<>>
  /\ "10.0.0.2" \notin DOMAIN devices
  /\ \E i \in 1..Len(logs) : logs[i].Message = "Invalid IP: not-an-ip"

\* C15: esc at either step closes the prompt and drops the pending IP;
\* the devices, deviceOrder, the log and the name map stay as they were
\* and no command is returned or started.
C15_EscapeClosesOnly ==
  [][(showPrompt /\ Key("esc")) =>
       /\ ~showPrompt'
       /\ pendingIP' = ""
       /\ cmds' = <<>>
       /\ UNCHANGED <<devices, deviceOrder, config, logs, runtimeVars>>]_vars

\* The prompt was left by esc with a name typed for 10.0.0.2: no device,
\* no log entry, no name, no fetch.
C15_Witness ==
  /\ ~showPrompt
  /\ promptStep = ""
  /\ pendingIP = ""
  /\ promptInput = <<"kitchen">>
  /\ devices = <<>>
  /\ logs = <<>>
  /\ config["10.0.0.2"] = ""
  /\ polls["10.0.0.2"] = <<>>

\* C16: enter at the IP step on a text that trimmed is neither empty nor a
\* valid IP logs exactly "Invalid IP: <text>" and closes the prompt, the
\* devices, deviceOrder and the name map as they were, no command
\* returned; on a text that trimmed is empty it closes the prompt and
\* changes nothing else.
C16_InvalidIPRejected ==
  [][(AwaitingIP /\ Key("enter")) =>
       LET value == TrimSpace(promptInput)
       IN  /\ (value # "" /\ value \notin IPs) =>
                /\ logs' = Append(logs, [Time |-> now,
                                         Message |-> "Invalid IP: " \o value])
                /\ ~showPrompt'
                /\ cmds' = <<>>
                /\ UNCHANGED <<devices, deviceOrder, config, runtimeVars>>
           /\ value = "" =>
                /\ ~showPrompt'
                /\ cmds' = <<>>
                /\ UNCHANGED <<devices, deviceOrder, config, logs, promptStep,
                               promptInput, pendingIP, runtimeVars>>]_vars

\* "not-an-ip" followed by a space was turned down: logged without the
\* space, prompt closed, no device.
C16_Witness ==
  /\ ~showPrompt
  /\ promptInput = <<"not-an-ip", " ">>
  /\ logs = <<[Time |-> now, Message |-> "Invalid IP: not-an-ip"]>>
  /\ devices = <<>>

\* C17: enter at the name step closes the prompt, registers the pending
\* IP, logs exactly "Added device: <name> (<ip>)" with the device's name,
\* returns one pollCmd and one configCmd for the IP, and writes the trimmed
\* text to the name map when it is not empty; the name map changes in no
\* other step and in no other way.
C17_NameStepAdds ==
  [][/\ (AwaitingName /\ Key("enter")) =>
          LET ip == pendingIP
              name == TrimSpace(promptInput)
          IN  /\ ~showPrompt'
              /\ ip \in DOMAIN devices'
              /\ DOMAIN devices' = DOMAIN devices \cup {ip}
              /\ logs' = Append(logs, [Time |-> now,
                     Message |-> "Added device: " \o devices'[ip].Name
                                   \o " (" \o ip \o ")"])
              /\ cmds' = <<pollCmd(ip), configCmd(ip)>>
              /\ config' = IF name # "" THEN [config EXCEPT ![ip] = name]
                           ELSE config
     /\ config' # config => (AwaitingName /\ Key("enter"))]_vars

\* 10.0.0.2 was added under the typed name kitchen: saved, logged, and
\* its two fetches returned.
C17_Witness ==
  /\ ~showPrompt
  /\ "10.0.0.2" \in DOMAIN devices
  /\ config["10.0.0.2"] = "kitchen"
  /\ devices["10.0.0.2"].Name = "kitchen"
  /\ logs[Len(logs)].Message = "Added device: kitchen (10.0.0.2)"
  /\ cmds = <<pollCmd("10.0.0.2"), configCmd("10.0.0.2")>>

----------------------------------------------------------------------------
(* Resize, tick and refresh. *)

\* C18: a WindowSizeMsg sets width and height to what it carries and
\* changes nothing else: devices, deviceOrder, the log, the name map and
\* the prompt stay, and no command is returned or started.
C18_ResizeSetsSizeOnly ==
  [][\A sz \in Sizes :
       Deliver(WindowSizeMsg(sz[1], sz[2]), Runtime) =>
         /\ width' = sz[1]
         /\ height' = sz[2]
         /\ cmds' = <<>>
         /\ UNCHANGED <<devices, deviceOrder, config, logs, promptVars,
                        noDiscovery, pollInterval, fahrenheit, discoveryCtx, runtimeVars>>]_vars

\* The terminal was resized twice, the second time with the prompt open,
\* two readings stored and fetches in flight.
C18_Witness ==
  /\ width = 120
  /\ height = 40
  /\ cmds = <<>>
  /\ showPrompt
  /\ DOMAIN devices = IPs
  /\ \A ip \in IPs : devices[ip].Data # Nil /\ polls[ip] # <<>>

\* C19: a tick returns one pollCmd for each entry of deviceOrder, in that
\* order, then one tickCmd and nothing else, so that one tick is pending
\* again; it changes no device, log entry or prompt field.
C19_TickPollsEachOnce ==
  [][Tick =>
       /\ Len(cmds') = Len(deviceOrder) + 1
       /\ \A i \in 1..Len(deviceOrder) : cmds'[i] = pollCmd(deviceOrder[i])
       /\ cmds'[Len(cmds')] = tickCmd
       /\ ticks' = ticks
       /\ cfgFetches' = cfgFetches
       /\ \A ip \in IPs :
            Len(polls'[ip]) =
              IF ip \in OrderSet /\ Len(polls[ip]) < MaxInFlight
              THEN Len(polls[ip]) + 1 ELSE Len(polls[ip])
       /\ UNCHANGED <<devices, deviceOrder, config, logs, sizeVars, promptVars>>]_vars

\* A tick was processed with two devices registered, a reading stored and
\* the prompt open: its batch is the last one returned.
C19_Witness ==
  /\ cmds = <<pollCmd("10.0.0.1"), pollCmd("10.0.0.2"), tickCmd>>
  /\ ticks = 1
  /\ showPrompt
  /\ devices["10.0.0.1"].Data # Nil
  /\ Len(polls["10.0.0.2"]) = MaxInFlight

\* C20: the key r, with the prompt closed, returns one pollCmd for each
\* entry of deviceOrder and nothing else: the pending tick stays pending
\* and no other is armed.
C20_RefreshPollsOnly ==
  [][(~showPrompt /\ Key("r")) =>
       /\ Len(cmds') = Len(deviceOrder)
       /\ \A i \in 1..Len(deviceOrder) : cmds'[i] = pollCmd(deviceOrder[i])
       /\ ticks' = ticks
       /\ ticks' > 0
       /\ \A ip \in IPs :
            Len(polls'[ip]) =
              IF ip \in OrderSet /\ Len(polls[ip]) < MaxInFlight
              THEN Len(polls[ip]) + 1 ELSE Len(polls[ip])]_vars

\* A refresh was processed with two devices registered: its batch is the
\* last one returned, a second fetch is open for each device and the tick
\* is still pending.
C20_Witness ==
  /\ cmds = <<pollCmd("10.0.0.1"), pollCmd("10.0.0.2")>>
  /\ logs[Len(logs)].Message = "Refreshing..."
  /\ ticks = 1
  /\ \A ip \in IPs : Len(polls[ip]) = MaxInFlight

----------------------------------------------------------------------------
(* Discovery. *)

\* The log entries a step appends (the log is below its cap).
Appended == SubSeq(logs', Len(logs) + 1, Len(logs'))

\* How many elements of the sequence q equal x.
Count(q, x) == Cardinality({i \in 1..Len(q) : q[i] = x})

DiscoveredText(ip) == "Discovered: " \o devices'[ip].Name \o " at " \o ip

\* What a step that handles the discovery entries of list must do.
DiscoveryEffect(list) ==
  LET reported == {list[i].IP : i \in 1..Len(list)}
      new == reported \ DOMAIN devices
  IN  /\ DOMAIN devices' = DOMAIN devices \cup new
      /\ \A ip \in DOMAIN devices : devices'[ip] = devices[ip]
      /\ \A ip \in new :
            /\ Count(deviceOrder', ip) = 1
            /\ Cardinality({i \in 1..Len(Appended) :
                   Appended[i].Message = DiscoveredText(ip)}) = 1
            /\ Count(cmds', pollCmd(ip)) = 1
            /\ Count(cmds', configCmd(ip)) = 1
      /\ Len(cmds') = 2 * Cardinality(new)
      /\ Cardinality({i \in 1..Len(Appended) :
             Appended[i].Message # "No new devices found"}) = Cardinality(new)
      /\ SubSeq(logs', 1, Len(logs)) = logs
      /\ SubSeq(deviceOrder', 1, Len(deviceOrder)) = deviceOrder
      /\ Len(deviceOrder') = Len(deviceOrder) + Cardinality(new)

\* C21: a Discovered message, and each element of a DiscoveryBatch, with an
\* IP that is not known adds the device, appends one "Discovered: name at
\* ip" entry and issues one reading fetch and one config fetch; with an IP
\* that is known (a repeat inside the batch included) it adds, logs and
\* fetches nothing and leaves the known device as it is.
C21_DiscoveryAddsOnce ==
  [][/\ \A d \in Found : DiscoveredOne(d) => DiscoveryEffect(<<d>>)
     /\ \A list \in Batches : DiscoveryBatchOf(list) => DiscoveryEffect(list)]_vars

\* The entry of 10.0.0.2 has just been handled, right after the entry of
\* 10.0.0.1, with a one-shot pass still running.
C21_Witness ==
  /\ Len(deviceOrder) = 2
  /\ cmds = <<pollCmd("10.0.0.2"), configCmd("10.0.0.2")>>
  /\ Len(logs) >= 2
  /\ logs[Len(logs)].Message = "Discovered: " \o MdnsName("10.0.0.2") \o " at 10.0.0.2"
  /\ logs[Len(logs) - 1].Message = "Discovered: " \o MdnsName("10.0.0.1") \o " at 10.0.0.1"
  /\ scans > 0

NoNewDevices == [Time |-> now, Message |-> "No new devices found"]

\* C22: a DiscoveryBatch without a new device (empty, or every IP known)
\* appends the one entry "No new devices found" and changes nothing else of
\* the model; a DiscoveryBatch with a new device appends no such entry.
C22_EmptyPassNoted ==
  [][\A list \in Batches :
       DiscoveryBatchOf(list) =>
         IF \A i \in 1..Len(list) : list[i].IP \in DOMAIN devices
         THEN /\ logs' = Append(logs, NoNewDevices)
              /\ cmds' = <<>>
              /\ UNCHANGED <<devices, deviceOrder, config, sizeVars, promptVars,
                             noDiscovery, pollInterval, fahrenheit, discoveryCtx>>
         ELSE \A i \in 1..Len(Appended) :
                Appended[i].Message # "No new devices found"]_vars

\* A pass that reported only known devices has been noted, after a pass
\* that found one.
C22_Witness ==
  /\ Len(logs) >= 2
  /\ logs[Len(logs)].Message = "No new devices found"
  /\ logs[Len(logs) - 1].Message = "Discovered: " \o MdnsName("10.0.0.1") \o " at 10.0.0.1"
  /\ "10.0.0.1" \in DOMAIN devices
  /\ cmds = <<>>

----------------------------------------------------------------------------
(* Failed fetches. *)

\* C23: a config fetch that fails delivers no message and leaves every
\* device (last error, reading, name), the log and the rest of the model as
\* they are; a step that sets a device's last error is a failed reading
\* fetch of that device returning.
C23_ConfigFailureSwallowed ==
  [][/\ ConfigFails => UNCHANGED <<modelVars, msg, cmds, polls, ticks>>
     /\ \A ip \in DOMAIN devices' :
          (/\ devices'[ip].LastError # Nil
           /\ ip \in DOMAIN devices => devices[ip].LastError # devices'[ip].LastError)
            => \E i \in 1..MaxInFlight, err \in FetchErrors :
                 /\ PollResult(ip, i, Nil, err)
                 /\ devices'[ip].LastError = err]_vars

\* The config fetch of 10.0.0.1 has failed and left it without a config,
\* with the reading it had received and no error, while a reading fetch of
\* 10.0.0.2 has failed.
C23_Witness ==
  /\ DOMAIN devices = IPs
  /\ cfgFetches["10.0.0.1"] = 0
  /\ devices["10.0.0.1"].Config.nil
  /\ devices["10.0.0.1"].LastError = Nil
  /\ devices["10.0.0.1"].Data # Nil
  /\ devices["10.0.0.2"].LastError # Nil

\* A reading fetch of ip returns with an error.
PollFailsFor(ip) ==
  \E i \in 1..MaxInFlight, err \in FetchErrors : PollResult(ip, i, Nil, err)

\* C24: a tick issues a new reading fetch for every device that has a last
\* error, and a reading arriving for a device clears its last error; with a
\* fair timer and fetches that return, a device whose fetches stop failing
\* from some point on ends up, and stays, without a last error.
C24_FailureRetried ==
  /\ [][/\ Tick =>
            \A ip \in DOMAIN devices :
              devices[ip].LastError # Nil =>
                /\ Count(cmds', pollCmd(ip)) = 1
                /\ polls'[ip] # <<>>
        /\ \A ip \in DOMAIN devices, i \in 1..MaxInFlight, data \in Readings :
             PollResult(ip, i, data, Nil) =>
               /\ devices'[ip].LastError = Nil
               /\ devices'[ip].Data = data]_vars
  /\ (<>[][~PollFailsFor("10.0.0.2")]_vars)
       => <>[](devices["10.0.0.2"].LastError = Nil)

\* A tick has just asked again for a reading of 10.0.0.2, whose last fetch
\* failed after an earlier one had brought a reading.
C24_Witness ==
  /\ devices["10.0.0.2"].LastError # Nil
  /\ devices["10.0.0.2"].Data # Nil
  /\ cmds = <<pollCmd("10.0.0.1"), pollCmd("10.0.0.2"), tickCmd>>
  /\ Len(polls["10.0.0.2"]) = 1

----------------------------------------------------------------------------
(* Quitting. *)

\* C25: once the program has quit, no discovery loop is left running:
\* the loop of main is cancelled, and so is every one-shot pass started by
\* the restart-discovery shortcut.
C25_QuitCancelsDiscovery ==
  quit => /\ discoveryCtx # "live"
          /\ scans = 0

----------------------------------------------------------------------------
(* The polling interval. *)

\* C26: every timer the program arms has a period of at least one second,
\* whatever --interval was given.
C26_IntervalAtLeastOne ==
  \A i \in 1..Len(cmds) : cmds[i].cmd = "tick" => cmds[i].d >= 1 * Second

----------------------------------------------------------------------------
(* The reducer called twice. *)

\* C27: Update called twice with the same model value and the same message
\* returns the same model both times.
C27_UpdateIsPure ==
  held.phase = "twice" => Returned = held.first

----------------------------------------------------------------------------
(* --no-discovery. *)

DiscoveryDisabled == [Time |-> now, Message |-> "Discovery disabled (--no-discovery)"]

\* C28: with --no-discovery the loop of main is never started, no one-shot
\* pass is ever in flight and Update sees no discovery entry; the shortcut
\* d only appends "Discovery disabled (--no-discovery)"; and a step that
\* adds a device to the registry is the prompt's name step confirming that
\* IP, so the registry holds command-line and prompt IPs only.
C28_NoDiscoveryWhenDisabled ==
  /\ [](noDiscovery => /\ discoveryCtx = "nil"
                        /\ scans = 0
                        /\ advertised = {}
                        /\ discoverCmd \notin {cmds[i] : i \in 1..Len(cmds)})
  /\ [][noDiscovery =>
          /\ (~showPrompt /\ Key("d")) =>
                /\ logs' = Append(logs, DiscoveryDisabled)
                /\ cmds' = <<>>
                /\ UNCHANGED <<devices, deviceOrder, config, sizeVars, promptVars,
                               runtimeVars>>
          /\ \A ip \in DOMAIN devices' \ DOMAIN devices :
                /\ Key("enter")
                /\ showPrompt /\ promptStep = "name" /\ pendingIP = ip]_vars

\* With --no-discovery, d has just been pressed after 10.0.0.2 was added
\* through the prompt.
C28_Witness ==
  /\ noDiscovery
  /\ "10.0.0.2" \in DOMAIN devices
  /\ Len(logs) >= 2
  /\ logs[Len(logs)].Message = "Discovery disabled (--no-discovery)"
  /\ logs[Len(logs) - 1].Message = "Added device: kitchen (10.0.0.2)"

----------------------------------------------------------------------------
(* The device grid. *)

\* The cells of the grid that hold device idx.
CellsOf(idx) ==
  {rc \in (0..(grid.rows - 1)) \X (0..(grid.cols - 1)) :
     /\ grid.cells[rc[1]][rc[2]].idx = idx
     /\ ~grid.cells[rc[1]][rc[2]].empty}

\* C29: the grid of n >= 1 devices has 1 column for n = 1, 2 for n = 2, 3
\* for n = 3, 2 for n = 4 and 3 for n >= 5; it has ceil(n / cols) rows;
\* every device index is in exactly one cell, and no row is empty.
C29_GridShape ==
  grid # NoGrid =>
    /\ grid.cols = CASE grid.n = 1 -> 1
                     [] grid.n = 2 -> 2
                     [] grid.n = 3 -> 3
                     [] grid.n = 4 -> 2
                     [] OTHER -> 3
    /\ grid.rows * grid.cols >= grid.n
    /\ (grid.rows - 1) * grid.cols < grid.n
    /\ \A idx \in 0..(grid.n - 1) : Cardinality(CellsOf(idx)) = 1
    /\ \A row \in 0..(grid.rows - 1) :
         \E col \in 0..(grid.cols - 1) : ~grid.cells[row][col].empty

\* Four devices laid out in two rows of two, and no cell left empty.
C29_Witness ==
  /\ grid.n = 4
  /\ grid.cols = 2
  /\ grid.rows = 2
  /\ \A row \in 0..1, col \in 0..1 : ~grid.cells[row][col].empty

RECURSIVE RowWidth(_, _)
\* The widths of the cells 0..col of a row, added up.
RowWidth(row, col) ==
  IF col < 0 THEN 0 ELSE grid.cells[row][col].w + RowWidth(row, col - 1)

\* C30: in every row each column but the last is floor(width / cols) wide,
\* the last is width - (cols - 1) * floor(width / cols) wide and the widths
\* add up to the terminal width; every row is floor(available height /
\* rows) high, and rows times that height is at most the available height.
C30_GridFits ==
  grid # NoGrid =>
    /\ \A row \in 0..(grid.rows - 1) :
         /\ \A col \in 0..(grid.cols - 2) :
              grid.cells[row][col].w = grid.width \div grid.cols
         /\ grid.cells[row][grid.cols - 1].w =
              grid.width - (grid.cols - 1) * (grid.width \div grid.cols)
         /\ RowWidth(row, grid.cols - 1) = grid.width
         /\ \A col \in 0..(grid.cols - 1) :
              grid.cells[row][col].h = grid.height \div grid.rows
    /\ \A col \in 0..(grid.cols - 1) :
         grid.rows * grid.cells[0][col].h <= grid.height

----------------------------------------------------------------------------
(* The box of one device. *)

\* C31: a box w wide has the interior width max(10, w - 4) and the bar
\* width max(0, interior - 30); the score gauge and the sensor bars are
\* drawn exactly when the bar width is positive, that is when w > 34; and
\* every bar drawn is as wide as the bar width, with no part negative.
C31_BarsOnlyWhenRoom ==
  (cell # NoCell /\ cell.content.mode = "reading") =>
    LET c == cell.content
        interior == IF cell.w - 4 > 10 THEN cell.w - 4 ELSE 10
    IN  /\ cell.width = interior
        /\ c.barWidth = IF interior - 30 > 0 THEN interior - 30 ELSE 0
        /\ c.barWidth >= 0
        /\ (c.bars # <<>>) <=> (cell.w > 34)
        /\ cell.w > 34 => Len(c.bars) = 1 + Len(c.lines)
        /\ \A i \in 1..Len(c.bars) :
             /\ c.bars[i].filled >= 0
             /\ c.bars[i].empty >= 0
             /\ c.bars[i].filled + c.bars[i].empty = c.barWidth
        /\ \A i \in 1..Len(c.lines) :
             cell.w <= 34 => c.lines[i].bar = NoBar

\* A box 35 wide: the narrowest with bars, each one character wide.
C31_Witness ==
  /\ cell # NoCell
  /\ cell.w = 35
  /\ cell.content.mode = "reading"
  /\ cell.content.barWidth = 1
  /\ Len(cell.content.bars) = 10

LowerIsBetter == {"co2", "co2_est", "voc", "pm25", "pm10_est"}

\* good < fair < poor
Rank(rating) == CASE rating = "good" -> 0 [] rating = "fair" -> 1 [] OTHER -> 2

\* C32: a lower-is-better sensor with optimal maximum M is rated good iff
\* v <= M, fair iff M < v <= 2M and poor iff v > 2M; so its rating never
\* improves as v grows.
C32_LowerIsBetterTiers ==
  (cell # NoCell /\ cell.content.mode = "reading") =>
    \A i \in 1..Len(cell.content.lines) :
      LET l == cell.content.lines[i]
          v == cell.dev.Data.values[l.Key]
          M == OptimalRanges[l.Key].Max * Tenths
      IN  l.Key \in LowerIsBetter =>
            /\ (l.rating = "good") <=> (v <= M)
            /\ (l.rating = "fair") <=> (M < v /\ v <= 2 * M)
            /\ (l.rating = "poor") <=> (v > 2 * M)
            /\ \A u \in LowerProbes(l.Key) :
                 u <= v => Rank(RateSensorValue(l.Key, DisplayValue(l.Key, u)))
                             <= Rank(l.rating)

\* CO2 just above twice its maximum, rated poor, next to a VOC rated good.
C32_Witness ==
  /\ cell # NoCell
  /\ cell.content.mode = "reading"
  /\ cell.dev.Data.values["co2"] = 2 * 600 * Tenths + 1
  /\ cell.content.lines[3].Key = "co2"
  /\ cell.content.lines[3].rating = "poor"
  /\ cell.content.lines[4].rating = "good"

\* The tolerance of a banded sensor, in its unit.
Tolerance(key) == IF key = "humid" THEN 10 ELSE 5

\* C33: temperature and dew point (in Fahrenheit) and relative humidity,
\* with range [min, max] and tolerance t (5, 5 and 10), are rated good iff
\* min <= v <= max, fair iff v is outside the range by at most t, and poor
\* otherwise; absolute humidity is rated good inside its range and fair
\* outside it, never poor.
C33_BandedTiers ==
  (cell # NoCell /\ cell.content.mode = "reading") =>
    \A i \in 1..Len(cell.content.lines) :
      LET l == cell.content.lines[i]
          raw == cell.dev.Data.values[l.Key]
          v == IF l.Key \in {"temp", "dew_point"} THEN raw * 18 + 3200 ELSE raw * 10
          lo == OptimalRanges[l.Key].Min * Hundredths
          hi == OptimalRanges[l.Key].Max * Hundredths
          t == Tolerance(l.Key) * Hundredths
          inside == lo <= v /\ v <= hi
          near == ~inside /\ lo - t <= v /\ v <= hi + t
      IN  /\ l.Key \in {"temp", "dew_point", "humid"} =>
                /\ (l.rating = "good") <=> inside
                /\ (l.rating = "fair") <=> near
                /\ (l.rating = "poor") <=> (~inside /\ ~near)
          /\ l.Key = "abs_humid" =>
                /\ (l.rating = "good") <=> inside
                /\ (l.rating = "fair") <=> ~inside

\* 27.8 C is 82.04 F, more than 5 above 77: the temperature is rated poor,
\* while the absolute humidity of the same reading is good.
C33_Witness ==
  /\ cell # NoCell
  /\ cell.content.mode = "reading"
  /\ cell.dev.Data.values["temp"] = 278
  /\ cell.content.lines[1].Key = "temp"
  /\ cell.content.lines[1].rating = "poor"
  /\ cell.content.lines[7].Key = "abs_humid"
  /\ cell.content.lines[7].rating = "good"

\* The box of the same device in the same cell with the other unit.
OtherUnit == renderDeviceContent(cell.dev, cell.width, ~cell.fahrenheit)

\* C34: the box rendered with --fahrenheit and the box rendered without it
\* agree on every rating and on every bar; they differ in the formatted
\* values of the temperature and the dew point, and in nothing else.
C34_UnitKeepsTiers ==
  (cell # NoCell /\ cell.content.mode = "reading") =>
    /\ cell.content.bars = OtherUnit.bars
    /\ Len(cell.content.lines) = Len(OtherUnit.lines)
    /\ \A i \in 1..Len(cell.content.lines) :
         LET l == cell.content.lines[i]
             o == OtherUnit.lines[i]
         IN  /\ l.Key = o.Key
             /\ l.rating = o.rating
             /\ l.bar = o.bar
             /\ (l.valStr # o.valStr) <=> (l.Key \in {"temp", "dew_point"})

\* 21.5 C shown as 70.7°F and rated good, with --fahrenheit.
C34_Witness ==
  /\ cell # NoCell
  /\ cell.fahrenheit
  /\ cell.content.mode = "reading"
  /\ cell.content.lines[1].valStr = "70.7°F"
  /\ cell.content.lines[1].rating = "good"
  /\ cell.content.lines[1].bar.filled > 0

\* C35: the box of a device shows "Connecting" iff it has no reading and no
\* error, the error with "Retrying" iff it has an error and no reading, and
\* the reading iff it has one, with or without an error; a device that has
\* a reading keeps one in every later state, so a device stays in the
\* reading view once a fetch has succeeded, whatever errors follow.
C35_ReadingViewKept ==
  /\ [](\A ip \in DOMAIN devices :
          LET dev == devices[ip]
          IN  /\ (cellMode(dev) = "connecting") <=> (dev.Data = Nil /\ dev.LastError = Nil)
              /\ (cellMode(dev) = "error") <=> (dev.Data = Nil /\ dev.LastError # Nil)
              /\ (cellMode(dev) = "reading") <=> (dev.Data # Nil))
  /\ [][\A ip \in DOMAIN devices :
          devices[ip].Data # Nil =>
            /\ ip \in DOMAIN devices'
            /\ devices'[ip].Data # Nil
            /\ cellMode(devices[ip])' = "reading"]_vars

\* 10.0.0.1 shows its reading though its last fetch failed, while
\* 10.0.0.2, which never had a reading, shows the error.
C35_Witness ==
  /\ DOMAIN devices = IPs
  /\ devices["10.0.0.1"].Data # Nil
  /\ devices["10.0.0.1"].LastError # Nil
  /\ cellMode(devices["10.0.0.1"]) = "reading"
  /\ cellMode(devices["10.0.0.2"]) = "error"

\* C36: while the program runs exactly one tick timer is pending; the batch
\* a Tick returns holds exactly one tickCmd, the batch any other message
\* returns holds none, and no step changes the number of pending timers.
C36_OneTickPending ==
  /\ [](Running => ticks = 1)
  /\ [][/\ ticks' = ticks
        /\ Tick => Count(cmds', tickCmd) = 1
        /\ ~Tick => Count(cmds', tickCmd) = 0]_vars

\* A timer is pending after a tick was processed with the prompt open, a
\* device found and a discovery pass under way.
C36_Witness ==
  /\ Running
  /\ ticks = 1
  /\ Count(cmds, tickCmd) = 1
  /\ Len(cmds) = 2
  /\ showPrompt
  /\ scans = 1
  /\ width > 0

\* C37: the pending IP is empty whenever the prompt is closed; while the
\* prompt waits for a name the pending IP is a non-empty valid IP; and the
\* key of every device the prompt adds is the pending IP, a valid one.
C37_PendingIPValid ==
  /\ [](~showPrompt => pendingIP = "")
  /\ [](showPrompt /\ promptStep = "name" => pendingIP # "" /\ isValidIP(pendingIP))
  /\ [][\A ip \in DOMAIN devices' \ DOMAIN devices :
          /\ showPrompt /\ promptStep = "name"
          /\ ip = pendingIP
          /\ isValidIP(ip)]_vars

\* The prompt waits for a name a second time, after it added 10.0.0.2.
C37_Witness ==
  /\ "10.0.0.2" \in DOMAIN devices
  /\ showPrompt
  /\ promptStep = "name"
  /\ pendingIP = "10.0.0.2"

\* C38: a Tick, PollResult, ConfigResult, Discovered, DiscoveryBatch or
\* Resize message handled with the prompt open leaves the registry and the
\* log as the same message leaves them with the prompt closed, and returns
\* the same batch; and it leaves the prompt step, the pending IP and the
\* typed input as they were, and the prompt open.
C38_PromptSuspendsNothing ==
  /\ [](held.phase = "done" => Effect = held.first)
  /\ [][held.phase \in {"none", "open"} => UNCHANGED promptVars]_vars

\* With the prompt open at its name step, a tick returned a fetch for the
\* device and a discovery batch added one.
C38_Witness ==
  /\ held.phase = "done"
  /\ showPrompt
  /\ promptStep = "name"
  /\ \/ msg.type = "tick" /\ Len(cmds) = 2
     \/ msg.type = "discoveryBatch" /\ Len(logs) > Len(held.start.logs)

\* C40: no forwarding goroutine of StartDiscovery sends on ch once the
\* outer goroutine has closed it, and once the context is cancelled every
\* forwarding goroutine that was started returns.
C40_ForwardersSafe ==
  /\ [](\A k \in Rounds : disc.fwd[k] # "panicked")
  /\ (disc.ctx = "done") ~> (\A k \in Rounds : disc.fwd[k] \in {"none", "done"})

\* C39: every one-shot pass the d key starts delivers its DiscoveryBatch
\* message; a batch is delivered only once the channel of the pass is
\* closed, one per pass; and the channel is closed only once the deadline
\* has passed, whether or not a device answered.
C39_PassDeliversOnce ==
  /\ [][scans' < scans => (scans' = scans - 1 /\ ChClosed)]_vars
  /\ [][(~ChClosed /\ ChClosed') => disc.ctx = "done"]_vars
  /\ (scans > 0) ~> (scans = 0)

====
